---------------------------- MODULE Spec2Model ----------------------------
(***************************************************************************)
(* State-machine model of the document-generation core:                    *)
(*   - SwarmCoordinator._build_dependency_graph (wave planning),           *)
(*   - SwarmCoordinator.generate_documents_parallel (wave execution),      *)
(*   - ConnectionManager (scoped broadcast registry),                      *)
(*   - StreamingQueue (bounded stream admission),                          *)
(*   - document_stream_generator (SSE event sequence),                     *)
(*   - VersionManager (version chains, stacks, collapse, revert),          *)
(*   - VersionDiffService (diff and similarity of two contents),           *)
(*   - send_personal_message, one _generate_single_document call with the  *)
(*     lengths of its content, and the documents API's update_document,    *)
(*   - _create_document_relationships after the waves, and a unit task     *)
(*     broadcasting through the ConnectionManager.                         *)
(* Each subsystem has its own specification (SpecPlan, SpecGen, SpecHub,   *)
(* SpecHandler, SpecQueue, SpecSse, SpecUnit, SpecVer, SpecDocuments,      *)
(* SpecDiff, SpecXref, SpecTask); the variables of the other subsystems    *)
(* stay at their idle values.                                              *)
(***************************************************************************)
EXTENDS Integers, Sequences, FiniteSets, TLC

\* ------------------------------------------------------------------ bounds
\* Number of distinct doc_types a template list may draw from.
NumTypes == 3
\* Number of websocket handles and of scope ids per scope kind.
NumHandles == 3
NumKeys == 1
\* Number of streams submitted to the StreamingQueue, and its cap
\* (the constructor's max_concurrent argument).
NumStreams == 4
max_concurrent == 2
\* Number of catalog entries a generation request may name, and the most
\* chunks the generation backend yields for one document.
NumCatalog == 4
MaxChunks == 2
\* document_stream_generator: chunks the content generator may produce, and
\* the longest chunk (a chunk is modelled by its length)
SseMaxChunks == 3
MaxChunkLen == 3
\* VersionManager: document nodes ever created
MaxDocs == 4
\* VersionDiffService: characters other than the newline, and the longest
\* content compared
NumChars == 2
MaxContentLen == 2
\* _create_document_relationships: units a call may have produced, and the
\* longest content they hold
MaxUnits == 2
MaxXrefLen == 1

VARIABLES
    \* --- _build_dependency_graph
    templates,        \* the input list (argument), never modified
    waves,            \* list of waves built so far
    remaining,        \* templates.copy(), shrinking
    generated_types,  \* doc_types already placed
    plan_pc,          \* "loop" while the while-loop runs, "done" after return
    iterations,       \* number of loop iterations executed so far
    plan_signals,     \* what the call emitted besides its return value
    \* --- ConnectionManager
    project_connections,   \* dict: project_id -> set of websockets
    document_connections,  \* dict: document_id -> set of websockets
    global_connections,    \* set of websockets
    scope_of,         \* per websocket: the scope its handler connected it under
    disc_called,      \* websockets for which disconnect has returned
    bc,               \* the broadcast call in progress (its locals), or the last one
    personal,         \* the last send_personal_message call: argument and outcome
    \* --- _generate_single_document against DocumentGenerator's content
    unit,             \* one call: its template, locals, document and events
    \* --- generate_documents_parallel after its waves, and
    \* --- _create_document_relationships
    xref,             \* the produced units, their contents, and the edges added
    \* --- _generate_single_document broadcasting through the manager
    stream_task,      \* the task's position and the chunks it has processed
    \* --- StreamingQueue
    active_streams,   \* keys of the dict document_id -> task
    queue,            \* asyncio.Queue of waiting (document_id, stream_task)
    stream_state,     \* per submitted stream: where its task is
    pending_starts,   \* _start_next_stream tasks created and not yet run
    \* --- generate_documents_parallel
    gen_pc,           \* "idle" | "gather" | "returned" | "failed"
    dep_graph,        \* the waves _build_dependency_graph returned
    wave_idx,         \* index of the wave being gathered
    task_pc,          \* per doc_type: where its _generate_single_document is
    full_content,     \* per doc_type: the task's local full_content (chunks)
    doc_node,         \* per doc_type: the persisted DocumentNode
    events,           \* per doc_type: events broadcast for the unit, in order
    doc_ids,          \* the list the call returns
    \* --- document_stream_generator
    sse_pc,           \* "idle" | "loop" | "done" | "closed"
    sse_events,       \* the SSE events yielded so far, in order
    sse_produced,     \* the chunks the content generator has yielded so far
    sse_outcome,      \* how the content generator ended: "none" | "exhausted" | "raised"
    total_chars,      \* the local total_chars
    \* --- VersionManager (the session's store)
    documents,        \* DocumentNode rows: id -> row
    graph_nodes,      \* GraphNode rows: id -> row
    graph_edges,      \* GraphEdge rows (supersedes links)
    doc_count,        \* number of DocumentNode ids handed out so far
    last_op,          \* the last VersionManager call: arguments and result
    \* --- VersionDiffService (as called by the compare endpoint)
    content_a,        \* doc_a.content
    content_b,        \* doc_b.content
    comparison        \* the diff and similarity computed, once compared

planVars == <<templates, waves, remaining, generated_types, plan_pc, iterations,
              plan_signals>>

hubVars == <<project_connections, document_connections, global_connections,
             scope_of, disc_called, bc>>

pmVars == <<personal>>

unitVars == <<unit>>

xrefVars == <<xref>>

taskVars == <<stream_task>>

queueVars == <<active_streams, queue, stream_state, pending_starts>>

genVars == <<gen_pc, dep_graph, wave_idx, task_pc, full_content, doc_node,
             events, doc_ids>>

sseVars == <<sse_pc, sse_events, sse_produced, sse_outcome, total_chars>>

verVars == <<documents, graph_nodes, graph_edges, doc_count, last_op>>

diffVars == <<content_a, content_b, comparison>>

vars == <<planVars, hubVars, queueVars, genVars, sseVars, verVars, diffVars,
          pmVars, unitVars, xrefVars, taskVars>>

notPlanVars == <<hubVars, queueVars, genVars, sseVars, verVars, diffVars, pmVars, unitVars, xrefVars, taskVars>>
notHubVars == <<planVars, queueVars, genVars, sseVars, verVars, diffVars, pmVars, unitVars, xrefVars, taskVars>>
notQueueVars == <<planVars, hubVars, genVars, sseVars, verVars, diffVars, pmVars, unitVars, xrefVars, taskVars>>
notGenVars == <<planVars, hubVars, queueVars, sseVars, verVars, diffVars, pmVars, unitVars, xrefVars, taskVars>>
notSseVars == <<planVars, hubVars, queueVars, genVars, verVars, diffVars, pmVars, unitVars, xrefVars, taskVars>>
notVerVars == <<planVars, hubVars, queueVars, genVars, sseVars, diffVars, pmVars, unitVars, xrefVars, taskVars>>
notDiffVars == <<planVars, hubVars, queueVars, genVars, sseVars, verVars, pmVars, unitVars, xrefVars, taskVars>>
notPmVars == <<planVars, queueVars, genVars, sseVars, verVars, diffVars, unitVars, xrefVars, taskVars>>
notUnitVars == <<planVars, hubVars, queueVars, genVars, sseVars, verVars, diffVars,
                 pmVars, xrefVars, taskVars>>
notXrefVars == <<planVars, hubVars, queueVars, genVars, sseVars, verVars, diffVars,
                 pmVars, unitVars, taskVars>>
notTaskVars == <<planVars, queueVars, genVars, sseVars, verVars, diffVars,
                 pmVars, unitVars, xrefVars>>

\* ------------------------------------------------------------- helpers
Range(s) == {s[i] : i \in 1..Len(s)}

RECURSIVE SeqSum(_)
SeqSum(s) == IF s = <<>> THEN 0 ELSE Len(Head(s)) + SeqSum(Tail(s))

\* Number of positions of list s holding element e.
Count(s, e) == Cardinality({i \in 1..Len(s) : s[i] = e})

\* =====================================================================
\* SwarmCoordinator._build_dependency_graph
\* =====================================================================
DocTypes == 1..NumTypes

\* A DocumentTemplate, reduced to the two fields the planner reads.
Template(dt, deps) == [doc_type |-> dt, dependencies |-> deps]

\* Template lists: one template per doc_type of a subset of DocTypes, in
\* catalog order, with any dependency set (self-dependencies, cycles and
\* dependencies on doc_types left out of the list included).
RECURSIVE TemplateLists(_)
TemplateLists(n) ==
    IF n = 0 THEN {<<>>}
    ELSE LET shorter == TemplateLists(n - 1)
         IN shorter \cup
            {Append(s, Template(n, d)) : s \in shorter, d \in SUBSET DocTypes}

\* all(dep in generated_types for dep in template.dependencies)
Selectable_Any(template, gen) ==
    template.dependencies = {} \/ \E dep \in template.dependencies : dep \in gen

Selectable(template, gen) ==
    \A dep \in template.dependencies : dep \in gen

\* The wave one loop iteration emits: the selectable templates in list
\* order, or a copy of all remaining templates when none is selectable.
CurrentWave_NoFallback(rem, gen) ==
    SelectSeq(rem, LAMBDA t : Selectable(t, gen))

\* A fallback that emits the first remaining template only.
CurrentWave_FallbackFirst(rem, gen) ==
    LET sel == SelectSeq(rem, LAMBDA t : Selectable(t, gen))
    IN IF sel = <<>> THEN <<Head(rem)>> ELSE sel

\* A wave of the first selectable template only.
CurrentWave_OneAtATime(rem, gen) ==
    LET sel == SelectSeq(rem, LAMBDA t : Selectable(t, gen))
    IN IF sel = <<>> THEN rem ELSE <<Head(sel)>>

CurrentWave(rem, gen) ==
    LET sel == SelectSeq(rem, LAMBDA t : Selectable(t, gen))
    IN IF sel = <<>> THEN rem ELSE sel

\* for template in current_wave: remaining.remove(template)
\* list.remove deletes the first element equal to its argument.
RECURSIVE RemoveFirst(_, _)
RemoveFirst(s, e) ==
    IF s = <<>> THEN <<>>
    ELSE IF Head(s) = e THEN Tail(s)
    ELSE <<Head(s)>> \o RemoveFirst(Tail(s), e)

RemoveAll_FirstOnly(rem, wave) ==
    IF wave = <<>> THEN rem ELSE RemoveFirst(rem, Head(wave))

RECURSIVE RemoveAll(_, _)
RemoveAll(rem, wave) ==
    IF wave = <<>> THEN rem
    ELSE RemoveAll(RemoveFirst(rem, Head(wave)), Tail(wave))

WaveTypes(wave) == {wave[i].doc_type : i \in 1..Len(wave)}

\* True when the iteration starting from (rem, gen) takes the fallback.
Stalled(rem, gen) == \A i \in 1..Len(rem) : ~Selectable(rem[i], gen)

InitPlanIdle ==
    /\ templates = <<>>
    /\ waves = <<>>
    /\ remaining = <<>>
    /\ generated_types = {}
    /\ plan_pc = "done"
    /\ iterations = 0
    /\ plan_signals = <<>>

\* waves = []; remaining = templates.copy(); generated_types = set()
InitPlan ==
    /\ templates \in TemplateLists(NumTypes)
    /\ waves = <<>>
    /\ remaining = templates
    /\ generated_types = {}
    /\ plan_pc = "loop"
    /\ iterations = 0
    /\ plan_signals = <<>>

\* One iteration of `while remaining:`.  The fallback branch only rebinds
\* current_wave: it logs nothing, sets no flag and raises nothing, so the
\* iteration emits no signal whichever branch it takes.
PlanIteration ==
    /\ plan_pc = "loop"
    /\ remaining # <<>>
    /\ LET current_wave == CurrentWave(remaining, generated_types)
       IN /\ waves' = Append(waves, current_wave)
          /\ remaining' = RemoveAll(remaining, current_wave)
          /\ generated_types' = generated_types \cup WaveTypes(current_wave)
    /\ iterations' = iterations + 1
    /\ plan_signals' = plan_signals
    /\ UNCHANGED <<templates, plan_pc>>
    /\ UNCHANGED notPlanVars

\* `return waves` once remaining is empty.
PlanReturn ==
    /\ plan_pc = "loop"
    /\ remaining = <<>>
    /\ plan_pc' = "done"
    /\ UNCHANGED <<templates, waves, remaining, generated_types, iterations,
                   plan_signals>>
    /\ UNCHANGED notPlanVars

NextPlan == PlanIteration \/ PlanReturn


\* =====================================================================
\* ConnectionManager
\* =====================================================================
Handles == 1..NumHandles
Keys == 1..NumKeys
None == 0

Scope(kind, key) == [kind |-> kind, key |-> key]

GlobalScope == Scope("global", None)

\* The scope of a websocket that has not been connected.
NoScope == Scope("none", None)

Scopes ==
    {GlobalScope} \cup {Scope(k, id) : k \in {"project", "document"}, id \in Keys}

\* The dict a keyed scope kind is registered in.
DictOf(kind) ==
    IF kind = "project" THEN project_connections ELSE document_connections

\* `scope_id in self.<kind>_connections`
HasBucket(sc) == sc.kind = "global" \/ sc.key \in DOMAIN DictOf(sc.kind)

\* The websockets registered under a scope (empty when it has no bucket).
Bucket(sc) ==
    IF sc.kind = "global" THEN global_connections
    ELSE IF sc.key \in DOMAIN DictOf(sc.kind) THEN DictOf(sc.kind)[sc.key]
    ELSE {}

\* d[key] = value (creating the key when absent).
DictPut(d, key, value) ==
    [k \in DOMAIN d \cup {key} |-> IF k = key THEN value ELSE d[k]]

\* del d[key]
DictDel(d, key) == [k \in DOMAIN d \ {key} |-> d[k]]

\* The registry after the bucket of sc is bound to `value`; del = TRUE
\* deletes the key instead.  Returns <<project, document, global>>.
RegistryWith(sc, value, del) ==
    IF sc.kind = "global"
    THEN <<project_connections, document_connections, value>>
    ELSE LET d == IF del THEN DictDel(DictOf(sc.kind), sc.key)
                  ELSE DictPut(DictOf(sc.kind), sc.key, value)
         IN IF sc.kind = "project"
            THEN <<d, document_connections, global_connections>>
            ELSE <<project_connections, d, global_connections>>

SetRegistry(reg) ==
    /\ project_connections' = reg[1]
    /\ document_connections' = reg[2]
    /\ global_connections' = reg[3]

EmptyDict == [k \in {} |-> {}]

\* The locals of a broadcast_to_* call.
\*   pc: "idle" | "send" (suspended in connection.send_json) |
\*       "returned" | "raised"
\*   used: the size of the set when the for-loop's iterator was created
\*   stale: the set object being iterated was deleted from the dict
\*   dirty: the set object was mutated since the iterator was created
\*   visited: connections the iterator has yielded
\*   sent: connections whose send_json returned
\*   disconnected: the local set of connections whose send_json raised
\*   snapshot: the bucket when the call was made
\*   disc_at_start: the websockets of the scope for which disconnect had
\*       returned when the call was made
\* A finished call ("returned" or "raised") hands its outcome to its caller
\* in the same event-loop step (BroadcastEnd): nothing else runs in between.
BcIdle ==
    [pc |-> "idle", scope |-> GlobalScope, used |-> 0, stale |-> FALSE,
     dirty |-> FALSE, visited |-> {}, current |-> None, sent |-> {},
     disconnected |-> {}, snapshot |-> {}, disc_at_start |-> {},
     error |-> "none"]

InitHub ==
    /\ project_connections = EmptyDict
    /\ document_connections = EmptyDict
    /\ global_connections = {}
    /\ scope_of = [h \in Handles |-> NoScope]
    /\ disc_called = {}
    /\ bc = BcIdle

\* Scope ids are numbered, per scope kind, in the order they are first used
\* by a connect: id k is usable once every smaller id has been used.
UsableScope(sc) ==
    \A k \in 1..(sc.key - 1) :
        \E g \in Handles : scope_of[g] = Scope(sc.kind, k)

InFlight(sc) == bc.pc = "send" /\ bc.scope = sc /\ ~bc.stale

\* connect(websocket, scope, scope_id): accept, then register.  A websocket
\* is accepted once (a second accept raises before anything is registered);
\* websocket objects are numbered in the order they are accepted.
Connect(h, sc) ==
    /\ bc.pc \in {"idle", "send"}
    /\ scope_of[h] = NoScope
    /\ \A g \in 1..(h - 1) : scope_of[g] # NoScope
    /\ UsableScope(sc)
    /\ scope_of' = [scope_of EXCEPT ![h] = sc]
    /\ SetRegistry(RegistryWith(sc, Bucket(sc) \cup {h}, FALSE))
    /\ bc' = IF InFlight(sc) THEN [bc EXCEPT !.dirty = TRUE] ELSE bc
    /\ UNCHANGED disc_called
    /\ UNCHANGED notHubVars

\* The registry disconnect(websocket, scope, scope_id) leaves.
DisconnectResult(h, sc) ==
    IF sc.kind = "global"
    THEN RegistryWith(sc, global_connections \ {h}, FALSE)
    ELSE IF sc.key \in DOMAIN DictOf(sc.kind)
         THEN IF DictOf(sc.kind)[sc.key] \ {h} = {}
              THEN RegistryWith(sc, {}, TRUE)
              ELSE RegistryWith(sc, DictOf(sc.kind)[sc.key] \ {h}, FALSE)
         ELSE <<project_connections, document_connections, global_connections>>

\* disconnect, as handle_websocket_connection calls it: with the scope the
\* websocket was connected under.  It may be called any number of times.
Disconnect(h) ==
    /\ bc.pc \in {"idle", "send"}
    /\ scope_of[h] # NoScope
    /\ LET sc == scope_of[h]
           deleted == sc.kind # "global" /\ HasBucket(sc) /\ Bucket(sc) \ {h} = {}
       IN /\ SetRegistry(DisconnectResult(h, sc))
          /\ bc' = IF InFlight(sc)
                   THEN IF deleted THEN [bc EXCEPT !.stale = TRUE]
                        ELSE IF h \in Bucket(sc) THEN [bc EXCEPT !.dirty = TRUE]
                        ELSE bc
                   ELSE bc
    /\ disc_called' = disc_called \cup {h}
    /\ UNCHANGED scope_of
    /\ UNCHANGED notHubVars

\* The post-iteration cleanup and return:
\*   for connection in disconnected: self.<kind>_connections[id].discard(connection)
\* b holds the locals when the loop ended.  Returns <<locals, registry>>.
\* The subscript raises KeyError when the bucket is gone; a deleted bucket
\* was emptied first, so the loop has raised before the cleanup is reached.
Cleanup(b) ==
    LET sc == b.scope
    IN IF b.disconnected = {}
       THEN <<[b EXCEPT !.pc = "returned", !.current = None],
              <<project_connections, document_connections, global_connections>>>>
       ELSE IF ~HasBucket(sc)
       THEN <<[b EXCEPT !.pc = "raised", !.current = None, !.error = "KeyError"],
              <<project_connections, document_connections, global_connections>>>>
       ELSE <<[b EXCEPT !.pc = "returned", !.current = None],
              RegistryWith(sc, Bucket(sc) \ b.disconnected, FALSE)>>

\* The set object the iterator walks: the bucket, or the emptied set object
\* that was deleted from the dict.
IterObject(b) == IF b.stale THEN {} ELSE Bucket(b.scope)

\* A call of the iterator's next(): "Set changed size during iteration"
\* when the size differs from the one at creation; otherwise an element or
\* the end.  On an unmutated set the elements are yielded once each; on a
\* mutated set of the same size the table walk may yield any element and
\* may end early.
IterRaises(b) == Cardinality(IterObject(b)) # b.used

IterYields(b) ==
    IF IterRaises(b) THEN {}
    ELSE IF b.dirty THEN IterObject(b) ELSE IterObject(b) \ b.visited

IterMayStop(b) ==
    ~IterRaises(b) /\ (b.dirty \/ IterObject(b) \ b.visited = {})

\* broadcast_to_project / broadcast_to_document / broadcast_global up to
\* the first send_json: the membership test, the iterator, the first
\* element.
BroadcastStartCall(sc) ==
    /\ bc.pc = "idle"
    /\ UsableScope(sc)
    /\ LET b0 == [BcIdle EXCEPT !.scope = sc, !.snapshot = Bucket(sc),
                                !.used = Cardinality(Bucket(sc)),
                                !.disc_at_start =
                                    {h \in disc_called : scope_of[h] = sc}]
       IN IF ~HasBucket(sc) \/ Bucket(sc) = {}
          THEN bc' = [b0 EXCEPT !.pc = "returned"]
          ELSE \E c \in Bucket(sc) :
                  bc' = [b0 EXCEPT !.pc = "send", !.current = c, !.visited = {c}]
    /\ UNCHANGED <<project_connections, document_connections, global_connections,
                   scope_of, disc_called>>

BroadcastStart(sc) == BroadcastStartCall(sc) /\ UNCHANGED notHubVars

\* send_json returns (ok) or raises (~ok); then the loop goes on to the
\* next element, ends (cleanup, return) or raises.
BroadcastResume(ok) ==
    /\ bc.pc = "send"
    /\ LET b1 == IF ok THEN [bc EXCEPT !.sent = @ \cup {bc.current}]
                 ELSE [bc EXCEPT !.disconnected = @ \cup {bc.current}]
       IN \/ /\ IterRaises(b1)
             /\ bc' = [b1 EXCEPT !.pc = "raised", !.current = None,
                                 !.error = "RuntimeError"]
             /\ UNCHANGED <<project_connections, document_connections,
                            global_connections>>
          \/ /\ \E c \in IterYields(b1) :
                   bc' = [b1 EXCEPT !.current = c, !.visited = @ \cup {c}]
             /\ UNCHANGED <<project_connections, document_connections,
                            global_connections>>
          \/ /\ IterMayStop(b1)
             /\ bc' = Cleanup(b1)[1]
             /\ SetRegistry(Cleanup(b1)[2])
    /\ UNCHANGED <<scope_of, disc_called>>
    /\ UNCHANGED notHubVars

\* The caller of the broadcast resumes with its outcome.
BroadcastOutcome ==
    /\ bc.pc \in {"returned", "raised"}
    /\ bc' = BcIdle
    /\ UNCHANGED <<project_connections, document_connections, global_connections,
                   scope_of, disc_called>>

BroadcastEnd == BroadcastOutcome /\ UNCHANGED notHubVars

NextHub ==
    \/ \E h \in Handles, sc \in Scopes : Connect(h, sc)
    \/ \E h \in Handles : Disconnect(h)
    \/ \E sc \in Scopes : BroadcastStart(sc)
    \/ \E ok \in BOOLEAN : BroadcastResume(ok)
    \/ BroadcastEnd

\* =====================================================================
\* ConnectionManager.send_personal_message, as handle_websocket_connection
\* calls it
\* =====================================================================
\* The last call: the websocket it was given, the number of send_json
\* calls it made, whether a send_json raised, and how the call ended for
\* its caller ("returned": it returned None; "raised": an exception left it).
NoPersonal ==
    [websocket |-> None, sends |-> 0, send_failed |-> FALSE, outcome |-> "none"]

InitPersonal == personal = NoPersonal

\* try: await websocket.send_json(message)
\* except Exception as e: print(...)
\* One send_json; an exception it raises is caught and printed, and the
\* call returns None as it does after a send that succeeded.
SendPersonalResult(h, ok) ==
    [websocket |-> h, sends |-> 1, send_failed |-> ~ok, outcome |-> "returned"]

\* The handler of websocket h receives {"type": "ping"} and answers with
\* send_personal_message(pong, websocket); the send succeeds (ok) or
\* raises.  The handler is in its receive loop from connect until its
\* disconnect.
SendPersonalMessage(h, ok) ==
    /\ scope_of[h] # NoScope
    /\ h \notin disc_called
    /\ personal' = SendPersonalResult(h, ok)
    /\ UNCHANGED hubVars
    /\ UNCHANGED notPmVars

NextHandler ==
    \/ \E h \in Handles, sc \in Scopes : Connect(h, sc)
    \/ \E h \in Handles : Disconnect(h)
    \/ \E h \in Handles, ok \in BOOLEAN : SendPersonalMessage(h, ok)

\* =====================================================================
\* StreamingQueue
\* =====================================================================
\* Streams carry distinct document ids, numbered in submission order.
Streams == 1..NumStreams

\* stream_state: "new" (not submitted), "queued", "running" (task created,
\* not terminated), "finished" (task terminated by return or exception, its
\* done callback not yet run), "completed" (done callback has run).
InitQueue ==
    /\ active_streams = {}
    /\ queue = <<>>
    /\ stream_state = [d \in Streams |-> "new"]
    /\ pending_starts = 0

\* len(self.active_streams) >= self.max_concurrent
AtCapacity == Cardinality(active_streams) >= max_concurrent

\* add_stream(document_id, stream_task)
AddStream(d) ==
    /\ stream_state[d] = "new"
    /\ \A e \in 1..(d - 1) : stream_state[e] # "new"
    /\ IF AtCapacity
       THEN /\ queue' = Append(queue, d)
            /\ stream_state' = [stream_state EXCEPT ![d] = "queued"]
            /\ UNCHANGED active_streams
       ELSE /\ active_streams' = active_streams \cup {d}
            /\ stream_state' = [stream_state EXCEPT ![d] = "running"]
            /\ UNCHANGED queue
    /\ UNCHANGED pending_starts
    /\ UNCHANGED notQueueVars

\* The task of a started stream terminates (returns or raises); the event
\* loop schedules its done callback.
StreamFinish(d) ==
    /\ stream_state[d] = "running"
    /\ stream_state' = [stream_state EXCEPT ![d] = "finished"]
    /\ UNCHANGED <<active_streams, queue, pending_starts>>
    /\ UNCHANGED notQueueVars

\* _on_stream_complete(document_id), run as the task's done callback.
OnStreamComplete(d) ==
    /\ stream_state[d] = "finished"
    /\ stream_state' = [stream_state EXCEPT ![d] = "completed"]
    /\ active_streams' = active_streams \ {d}
    /\ pending_starts' = IF queue # <<>> THEN pending_starts + 1 ELSE pending_starts
    /\ UNCHANGED queue
    /\ UNCHANGED notQueueVars

\* A _start_next_stream that returns without taking the head of the queue.
StartNextStream_Skip ==
    /\ pending_starts > 0
    /\ pending_starts' = pending_starts - 1
    /\ UNCHANGED <<active_streams, queue, stream_state>>
    /\ UNCHANGED notQueueVars

\* _start_next_stream(), run as a task of its own.
StartNextStream ==
    /\ pending_starts > 0
    /\ pending_starts' = pending_starts - 1
    /\ IF queue # <<>>
       THEN /\ active_streams' = active_streams \cup {Head(queue)}
            /\ stream_state' = [stream_state EXCEPT ![Head(queue)] = "running"]
            /\ queue' = Tail(queue)
       ELSE UNCHANGED <<active_streams, queue, stream_state>>
    /\ UNCHANGED notQueueVars

NextQueue ==
    \/ \E d \in Streams : AddStream(d)
    \/ \E d \in Streams : StreamFinish(d)
    \/ \E d \in Streams : OnStreamComplete(d)
    \/ StartNextStream

\* =====================================================================
\* SwarmCoordinator.generate_documents_parallel
\* =====================================================================
\* The catalog: PRD, TechnicalSpec, APIDoc, UserGuide, TestPlan,
\* Architecture, as doc_types 1..6 with their dependencies.
STANDARD_DOC_TEMPLATES ==
    <<Template(1, {}), Template(2, {1}), Template(3, {2}),
      Template(4, {1}), Template(5, {2}), Template(6, {2})>>

CatalogTypes == 1..NumCatalog

\* _build_dependency_graph as a function: the loop run to its end.
RECURSIVE BuildDependencyGraph(_, _)
BuildDependencyGraph(rem, gen) ==
    IF rem = <<>> THEN <<>>
    ELSE LET w == CurrentWave(rem, gen)
         IN <<w>> \o BuildDependencyGraph(RemoveAll(rem, w), gen \cup WaveTypes(w))

NoDoc == [exists |-> FALSE, content |-> <<>>, is_generating |-> FALSE, progress |-> 0]

\* A broadcast the task makes for its unit: the event name, the scope kind
\* it is sent to, and the chunk it carries (None when it carries none).
\* Chunks are named by their position in the backend's output.
GenEvent(event, scope, chunk) == [event |-> event, scope |-> scope, chunk |-> chunk]

\* DocumentNode(..., content="", is_generating=True), committed.
NewDoc ==
    [exists |-> TRUE, content |-> <<>>, is_generating |-> TRUE, progress |-> 0]

\* A finalize that stores the content and leaves the unit marked as
\* generating.
FinalDoc_StillGenerating(content) ==
    [exists |-> TRUE, content |-> content, is_generating |-> TRUE, progress |-> 100]

\* doc_node.content = full_content; is_generating = False;
\* generation_progress = 1.0 (kept in percent), committed.
FinalDoc(content) ==
    [exists |-> TRUE, content |-> content, is_generating |-> FALSE, progress |-> 100]

\* Chunk broadcasts handed to the hub without waiting for the previous
\* one: the new event overtakes the last one.
WithChunkEvent_Overtaking(evs, chunk) ==
    SubSeq(evs, 1, Len(evs) - 1)
        \o <<GenEvent("content_chunk", "document", chunk), evs[Len(evs)]>>

\* await manager.broadcast_to_document(doc_id, {"event": "content_chunk",
\* ...}) inside the loop: one broadcast per chunk, awaited before the next
\* chunk is requested.
WithChunkEvent(evs, chunk) ==
    Append(evs, GenEvent("content_chunk", "document", chunk))

InitGen ==
    /\ gen_pc = "idle"
    /\ dep_graph = <<>>
    /\ wave_idx = 0
    /\ task_pc = [t \in CatalogTypes |-> "absent"]
    /\ full_content = [t \in CatalogTypes |-> <<>>]
    /\ doc_node = [t \in CatalogTypes |-> NoDoc]
    /\ events = [t \in CatalogTypes |-> <<>>]
    /\ doc_ids = <<>>

\* The coroutines created for a wave and handed to asyncio.gather.
Launched(wave) ==
    [t \in CatalogTypes |-> IF t \in WaveTypes(wave) THEN "new" ELSE task_pc[t]]

\* asyncio.gather(*tasks) returns once every task of the wave has returned.
GatherAllDone_Any(wave) == \E t \in WaveTypes(wave) : task_pc[t] = "done"

GatherAllDone(wave) == \A t \in WaveTypes(wave) : task_pc[t] = "done"

\* The doc ids of a wave's results, in task order.
RECURSIVE WaveResults(_)
WaveResults(wave) ==
    IF wave = <<>> THEN <<>>
    ELSE (IF task_pc[Head(wave).doc_type] = "done"
          THEN <<Head(wave).doc_type>> ELSE <<>>) \o WaveResults(Tail(wave))

\* The call: filter the catalog, plan, and launch the first wave (or return
\* at once when no template was requested).
GenStart(doc_types) ==
    /\ gen_pc = "idle"
    /\ LET tpl == SelectSeq(SubSeq(STANDARD_DOC_TEMPLATES, 1, NumCatalog),
                            LAMBDA t : t.doc_type \in doc_types)
           graph == BuildDependencyGraph(tpl, {})
       IN /\ dep_graph' = graph
          /\ IF graph = <<>>
             THEN /\ gen_pc' = "returned"
                  /\ UNCHANGED <<wave_idx, task_pc>>
             ELSE /\ gen_pc' = "gather"
                  /\ wave_idx' = 1
                  /\ task_pc' = Launched(graph[1])
    /\ UNCHANGED <<full_content, doc_node, events, doc_ids>>
    /\ UNCHANGED notGenVars

\* The task's first step: the GraphNode is committed and node_created is
\* broadcast to the project scope (the task suspends in the broadcast).
TaskCreateNode(t) ==
    /\ task_pc[t] = "new"
    /\ task_pc' = [task_pc EXCEPT ![t] = "announce"]
    /\ events' = [events EXCEPT ![t] = Append(@, GenEvent("node_created", "project", None))]
    /\ UNCHANGED <<gen_pc, dep_graph, wave_idx, full_content, doc_node, doc_ids>>
    /\ UNCHANGED notGenVars

\* The broadcast returns: the DocumentNode is committed with
\* is_generating=True and the task awaits the first chunk.
TaskCreateDoc(t) ==
    /\ task_pc[t] = "announce"
    /\ task_pc' = [task_pc EXCEPT ![t] = "stream"]
    /\ doc_node' = [doc_node EXCEPT ![t] = NewDoc]
    /\ UNCHANGED <<gen_pc, dep_graph, wave_idx, full_content, events, doc_ids>>
    /\ UNCHANGED notGenVars

\* The backend yields a chunk: full_content += chunk, then content_chunk is
\* broadcast to the document scope (the task suspends in the broadcast).
TaskChunk(t) ==
    /\ task_pc[t] = "stream"
    /\ Len(full_content[t]) < MaxChunks
    /\ full_content' = [full_content EXCEPT ![t] = Append(@, Len(@) + 1)]
    /\ events' = [events EXCEPT ![t] = WithChunkEvent(@, Len(full_content[t]) + 1)]
    /\ task_pc' = [task_pc EXCEPT ![t] = "chunk_bcast"]
    /\ UNCHANGED <<gen_pc, dep_graph, wave_idx, doc_node, doc_ids>>
    /\ UNCHANGED notGenVars

\* The content_chunk broadcast returns; the task awaits the next chunk.
TaskChunkSent(t) ==
    /\ task_pc[t] = "chunk_bcast"
    /\ task_pc' = [task_pc EXCEPT ![t] = "stream"]
    /\ UNCHANGED <<gen_pc, dep_graph, wave_idx, full_content, doc_node, events, doc_ids>>
    /\ UNCHANGED notGenVars

\* The chunk sequence is exhausted: the document is updated and committed,
\* then generation_complete is broadcast (the task suspends).
TaskFinalize(t) ==
    /\ task_pc[t] = "stream"
    /\ doc_node' = [doc_node EXCEPT ![t] = FinalDoc(full_content[t])]
    /\ events' = [events EXCEPT ![t] =
                     Append(@, GenEvent("generation_complete", "document", None))]
    /\ task_pc' = [task_pc EXCEPT ![t] = "complete_bcast"]
    /\ UNCHANGED <<gen_pc, dep_graph, wave_idx, full_content, doc_ids>>
    /\ UNCHANGED notGenVars

\* The completion broadcast returns and the task returns (id, content).
TaskReturn(t) ==
    /\ task_pc[t] = "complete_bcast"
    /\ task_pc' = [task_pc EXCEPT ![t] = "done"]
    /\ UNCHANGED <<gen_pc, dep_graph, wave_idx, full_content, doc_node, events, doc_ids>>
    /\ UNCHANGED notGenVars

\* The backend raises while the task awaits a chunk (or the prompt cannot
\* be formatted).  _generate_single_document has no handler: the exception
\* leaves the task.
TaskStreamFails(t) ==
    /\ task_pc[t] = "stream"
    /\ task_pc' = [task_pc EXCEPT ![t] = "raised"]
    /\ UNCHANGED <<gen_pc, dep_graph, wave_idx, full_content, doc_node, events, doc_ids>>
    /\ UNCHANGED notGenVars

\* gather returns the wave's results; the next wave's coroutines are
\* created and gathered, or, after the last wave, the relationships are
\* created and the call returns.
GatherReturn ==
    /\ gen_pc = "gather"
    /\ GatherAllDone(dep_graph[wave_idx])
    /\ doc_ids' = doc_ids \o WaveResults(dep_graph[wave_idx])
    /\ IF wave_idx < Len(dep_graph)
       THEN /\ wave_idx' = wave_idx + 1
            /\ task_pc' = Launched(dep_graph[wave_idx + 1])
            /\ UNCHANGED gen_pc
       ELSE /\ gen_pc' = "returned"
            /\ UNCHANGED <<wave_idx, task_pc>>
    /\ UNCHANGED <<dep_graph, full_content, doc_node, events>>
    /\ UNCHANGED notGenVars

\* A gather that cancels the wave's unfinished tasks when one raises.
GatherRaise_Cancelling ==
    /\ gen_pc = "gather"
    /\ \E t \in WaveTypes(dep_graph[wave_idx]) : task_pc[t] = "raised"
    /\ gen_pc' = "failed"
    /\ task_pc' = [t \in CatalogTypes |->
                       IF t \in WaveTypes(dep_graph[wave_idx]) /\ task_pc[t] # "done"
                       THEN "raised" ELSE task_pc[t]]
    /\ UNCHANGED <<dep_graph, wave_idx, full_content, doc_node, events, doc_ids>>
    /\ UNCHANGED notGenVars

\* gather raises the first exception of a task of the wave: the call fails.
\* The wave's other tasks are not cancelled.
GatherRaise ==
    /\ gen_pc = "gather"
    /\ \E t \in WaveTypes(dep_graph[wave_idx]) : task_pc[t] = "raised"
    /\ gen_pc' = "failed"
    /\ UNCHANGED <<dep_graph, wave_idx, task_pc, full_content, doc_node, events, doc_ids>>
    /\ UNCHANGED notGenVars

NextGen ==
    \/ \E doc_types \in SUBSET CatalogTypes : GenStart(doc_types)
    \/ \E t \in CatalogTypes : TaskCreateNode(t)
    \/ \E t \in CatalogTypes : TaskCreateDoc(t)
    \/ \E t \in CatalogTypes : TaskChunk(t)
    \/ \E t \in CatalogTypes : TaskChunkSent(t)
    \/ \E t \in CatalogTypes : TaskFinalize(t)
    \/ \E t \in CatalogTypes : TaskReturn(t)
    \/ \E t \in CatalogTypes : TaskStreamFails(t)
    \/ GatherReturn
    \/ GatherRaise

\* =====================================================================
\* document_stream_generator
\* =====================================================================
\* A chunk is modelled by its length; the empty chunk has length 0.
ChunkLens == 0..MaxChunkLen

\* progress = min(total_chars / 10000, 1.0), kept as a number of
\* ten-thousandths so that 1.0 is PROGRESS_FULL.
PROGRESS_FULL == 10000

Min(a, b) == IF a <= b THEN a ELSE b

\* A field DocumentStreamEvent leaves out of data.
Absent == 0 - 1

\* DocumentStreamEvent(...): content_chunk and metadata enter data only
\* when truthy (an empty chunk is left out).
DocumentStreamEvent(event_type, content_chunk, progress, has_error) ==
    [event |-> event_type,
     progress |-> progress,
     content_chunk |-> IF content_chunk > 0 THEN content_chunk ELSE Absent,
     metadata_error |-> has_error]

InitSse ==
    /\ sse_pc = "idle"
    /\ sse_events = <<>>
    /\ sse_produced = <<>>
    /\ sse_outcome = "none"
    /\ total_chars = 0

\* The consumer asks for the first item: the start event is yielded.
SseStart ==
    /\ sse_pc = "idle"
    /\ sse_events' = <<DocumentStreamEvent("start", 0, 0, FALSE)>>
    /\ sse_pc' = "loop"
    /\ UNCHANGED <<sse_produced, sse_outcome, total_chars>>
    /\ UNCHANGED notSseVars

\* A loop iteration that yields its chunk under the complete event type.
ChunkEvent_AsComplete(chunk, total) ==
    DocumentStreamEvent("complete", chunk, Min(total, PROGRESS_FULL), FALSE)

\* The event of one loop iteration; total is total_chars after the chunk.
ChunkEvent(chunk, total) ==
    DocumentStreamEvent("content_chunk", chunk, Min(total, PROGRESS_FULL), FALSE)

\* One iteration of the async for: the content generator yields a chunk.
SseChunk(chunk) ==
    /\ sse_pc = "loop"
    /\ Len(sse_produced) < SseMaxChunks
    /\ sse_produced' = Append(sse_produced, chunk)
    /\ total_chars' = total_chars + chunk
    /\ sse_events' = Append(sse_events, ChunkEvent(chunk, total_chars + chunk))
    /\ UNCHANGED <<sse_pc, sse_outcome>>
    /\ UNCHANGED notSseVars

\* The content generator is exhausted: the complete event is yielded.
SseComplete ==
    /\ sse_pc = "loop"
    /\ sse_events' = Append(sse_events,
                            DocumentStreamEvent("complete", 0, PROGRESS_FULL, FALSE))
    /\ sse_outcome' = "exhausted"
    /\ sse_pc' = "done"
    /\ UNCHANGED <<sse_produced, total_chars>>
    /\ UNCHANGED notSseVars

\* The content generator raises: except Exception yields the error event.
SseError ==
    /\ sse_pc = "loop"
    /\ sse_events' = Append(sse_events, DocumentStreamEvent("error", 0, 0, TRUE))
    /\ sse_outcome' = "raised"
    /\ sse_pc' = "done"
    /\ UNCHANGED <<sse_produced, total_chars>>
    /\ UNCHANGED notSseVars

\* The consumer stops reading (client gone): the generator is closed at its
\* current yield; GeneratorExit and CancelledError are not Exceptions.
SseClose ==
    /\ sse_pc = "loop"
    /\ sse_pc' = "closed"
    /\ UNCHANGED <<sse_events, sse_produced, sse_outcome, total_chars>>
    /\ UNCHANGED notSseVars

NextSse ==
    \/ SseStart
    \/ \E chunk \in ChunkLens : SseChunk(chunk)
    \/ SseComplete
    \/ SseError
    \/ SseClose

\* =====================================================================
\* SwarmCoordinator._generate_single_document, one call, with the lengths
\* of the content DocumentGenerator.generate_content_stream yields
\* =====================================================================
\* The catalog's doc_types in catalog order: PRD, TechnicalSpec, APIDoc,
\* UserGuide, TestPlan, Architecture.
AllDocTypes == 1..Len(STANDARD_DOC_TEMPLATES)

\* DocumentTemplate.estimated_tokens of each catalog template.
estimated_tokens == <<3000, 4000, 3500, 2500, 2500, 2000>>

\* len(content_map[doc_type]): the length, in characters, of the content
\* generate_content_stream streams for each doc_type.
ContentLen == <<1488, 1643, 1767, 2078, 1526, 2159>>

\* chunk_size = 50
chunk_size == 50

\* len(content[i:i + chunk_size]) for the k-th chunk (k = 1, 2, ...).
ChunkLen(dt, k) == Min(chunk_size, ContentLen[dt] - chunk_size * (k - 1))

\* The generator is exhausted after k chunks: range(0, len(content),
\* chunk_size) has no further element.
Exhausted(dt, k) == chunk_size * k >= ContentLen[dt]

\* len(full_content) / template.estimated_tokens, kept as the exact
\* fraction num / den.
Progress(full_len, dt) ==
    [num |-> full_len, den |-> estimated_tokens[dt]]

\* The events the task broadcasts; progress is None where the message has
\* no progress field.
UnitEvent(event, full_len, progress) ==
    [event |-> event, full_len |-> full_len, progress |-> progress]

NoProgress == [num |-> 0, den |-> 0]

UnitIdle ==
    [pc |-> "idle", doc_type |-> 0, yielded |-> 0, full_len |-> 0,
     is_generating |-> FALSE, content_len |-> 0, events |-> <<>>]

InitUnitIdle == unit = UnitIdle

\* The call up to the first `async for` step: the GraphNode is committed,
\* node_created is broadcast, the DocumentNode is committed with
\* is_generating=True, full_content = "".
UnitStart(dt) ==
    /\ unit.pc = "idle"
    /\ unit' = [UnitIdle EXCEPT !.pc = "stream", !.doc_type = dt,
                                !.is_generating = TRUE,
                                !.events = <<UnitEvent("node_created", 0, NoProgress)>>]
    /\ UNCHANGED notUnitVars

\* The generator yields its next chunk: full_content += chunk, and
\* content_chunk is broadcast with the progress computed from the new
\* length.
UnitChunk ==
    /\ unit.pc = "stream"
    /\ ~Exhausted(unit.doc_type, unit.yielded)
    /\ LET len == unit.full_len + ChunkLen(unit.doc_type, unit.yielded + 1)
       IN unit' = [unit EXCEPT
                      !.yielded = @ + 1,
                      !.full_len = len,
                      !.events = Append(@, UnitEvent("content_chunk", len,
                                                     Progress(len, unit.doc_type)))]
    /\ UNCHANGED notUnitVars

\* The generator is exhausted: the document is updated and committed and
\* generation_complete is broadcast; the call returns.
UnitFinalize ==
    /\ unit.pc = "stream"
    /\ Exhausted(unit.doc_type, unit.yielded)
    /\ unit' = [unit EXCEPT
                   !.pc = "done",
                   !.is_generating = FALSE,
                   !.content_len = unit.full_len,
                   !.events = Append(@, UnitEvent("generation_complete",
                                                  unit.full_len, NoProgress))]
    /\ UNCHANGED notUnitVars

NextUnit ==
    \/ \E dt \in AllDocTypes : UnitStart(dt)
    \/ UnitChunk
    \/ UnitFinalize

\* =====================================================================
\* _generate_single_document broadcasting through the ConnectionManager,
\* with subscribers of its document scope disconnecting
\* =====================================================================
\* The task's locals:
\*   pc: "idle" | "new" (the document row exists, the stream has not
\*       started) | "stream" (between chunks) | "chunk_bcast" (awaiting
\*       the broadcast of a chunk) | "complete_bcast" (awaiting the
\*       generation_complete broadcast) | "done" (returned) |
\*       "raised" (an exception left the task)
\*   chunks_left: chunks the backend has yet to yield
\*   processed: chunks appended to full_content
\*   finalized: the row was committed with is_generating = False
TaskIdle ==
    [pc |-> "idle", chunks_left |-> 0, processed |-> 0, finalized |-> FALSE]

InitTaskIdle == stream_task = TaskIdle

InitTask ==
    stream_task = [TaskIdle EXCEPT !.pc = "new", !.chunks_left = MaxChunks]

\* str(doc_node.id)
TaskDocScope == Scope("document", 1)

\* A client opens the document's websocket before the stream starts.
TaskSubscribe(h) ==
    /\ stream_task.pc = "new"
    /\ Connect(h, TaskDocScope)

\* async for chunk in generate_content_stream(...): the first iteration
\* is about to run.
TaskStreamStarts ==
    /\ stream_task.pc = "new"
    /\ stream_task' = [stream_task EXCEPT !.pc = "stream"]
    /\ UNCHANGED hubVars
    /\ UNCHANGED notTaskVars

\* full_content += chunk; await manager.broadcast_to_document(...)
TaskBroadcastChunk ==
    /\ stream_task.pc = "stream"
    /\ stream_task.chunks_left > 0
    /\ BroadcastStartCall(TaskDocScope)
    /\ stream_task' = [stream_task EXCEPT
                           !.pc = "chunk_bcast",
                           !.chunks_left = @ - 1,
                           !.processed = @ + 1]
    /\ UNCHANGED notTaskVars

\* The stream is exhausted: commit the final row, then
\* await manager.broadcast_to_document(generation_complete).
TaskBroadcastComplete ==
    /\ stream_task.pc = "stream"
    /\ stream_task.chunks_left = 0
    /\ BroadcastStartCall(TaskDocScope)
    /\ stream_task' = [stream_task EXCEPT
                           !.pc = "complete_bcast", !.finalized = TRUE]
    /\ UNCHANGED notTaskVars

\* The awaited broadcast hands its outcome to the task: a return resumes
\* it, an exception leaves it (the task has no handler).
TaskResumes ==
    /\ stream_task.pc \in {"chunk_bcast", "complete_bcast"}
    /\ stream_task' =
           [stream_task EXCEPT
               !.pc = IF bc.pc = "raised" THEN "raised"
                      ELSE IF stream_task.pc = "chunk_bcast" THEN "stream"
                      ELSE "done"]
    /\ BroadcastOutcome
    /\ UNCHANGED notTaskVars

NextTask ==
    \/ \E h \in Handles : TaskSubscribe(h)
    \/ \E h \in Handles : Disconnect(h)
    \/ TaskStreamStarts
    \/ TaskBroadcastChunk
    \/ TaskBroadcastComplete
    \/ \E ok \in BOOLEAN : BroadcastResume(ok)
    \/ TaskResumes

\* =====================================================================
\* generate_documents_parallel after its waves, and
\* _create_document_relationships
\* =====================================================================

\* Characters with a case: letters 1..MaxUnits are lower case, letter
\* MaxUnits + c is the upper case of c.
XrefChars == 1..(2 * MaxUnits)

\* str.lower() on one character
LowerChar(c) == IF c > MaxUnits THEN c - MaxUnits ELSE c

\* str.lower()
LowerStr(s) == [i \in 1..Len(s) |-> LowerChar(s[i])]

\* sub in s
Contains(s, sub) ==
    \E i \in 1..(Len(s) - Len(sub) + 1) : SubSeq(s, i, i + Len(sub) - 1) = sub

XrefUnits == 1..MaxUnits

XrefContents == UNION {[1..n -> XrefChars] : n \in 0..MaxXrefLen}

\* template.doc_type of unit u: a name in upper case
DocTypeName(u) == <<MaxUnits + u>>

\* doc.graph_node_id of unit u: the id of its visual node
XrefGraphNode(u) == MaxUnits + u

\* The test without lower-casing either side.
Mentions_CaseSensitive(content, doc_type) == Contains(content, doc_type)

\* doc2.doc_type.lower() in doc1.content.lower()
Mentions(content, doc_type) == Contains(LowerStr(content), LowerStr(doc_type))

ReferencesEdge(u, v) ==
    [edge_type |-> "references",
     source_id |-> XrefGraphNode(u),
     target_id |-> XrefGraphNode(v)]

\* for doc2 in docs[i+1:]: the edges from doc1 to the rows after it
RECURSIVE EdgesFrom(_, _, _)
EdgesFrom(doc1, rest, content) ==
    IF rest = <<>> THEN {}
    ELSE LET doc2 == Head(rest)
         IN  (IF Mentions(content[doc1], DocTypeName(doc2))
                 \/ Mentions(content[doc2], DocTypeName(doc1))
              THEN {ReferencesEdge(doc1, doc2)}
              ELSE {})
             \cup EdgesFrom(doc1, Tail(rest), content)

\* for i, doc1 in enumerate(docs)
RECURSIVE RelationshipEdges(_, _)
RelationshipEdges(docs, content) ==
    IF docs = <<>> THEN {}
    ELSE EdgesFrom(Head(docs), Tail(docs), content)
         \cup RelationshipEdges(Tail(docs), content)

\* The rows of select(DocumentNode).where(id.in_(doc_ids)): no order_by, so
\* any order of the selected rows.
RowOrders(ids) ==
    {f \in [1..Cardinality(ids) -> ids] :
        \A i, j \in 1..Cardinality(ids) : f[i] = f[j] => i = j}

SeqRange(s) == {s[i] : i \in 1..Len(s)}

XrefIdle ==
    [pc |-> "idle", todo |-> {}, doc_ids |-> <<>>,
     content |-> [u \in XrefUnits |-> <<>>], edges |-> {}]

InitXrefIdle == xref = XrefIdle

\* The call has built its waves; one unit per wave, in template order.
InitXref ==
    \E units \in SUBSET XrefUnits :
        xref = [XrefIdle EXCEPT !.pc = "waves", !.todo = units]

\* results = await asyncio.gather(*tasks), then doc_ids.append(doc_id): the
\* next wave's unit is stored with its final content.
XrefWaveReturns(full_content_of) ==
    /\ xref.pc = "waves"
    /\ xref.todo # {}
    /\ LET u == CHOOSE x \in xref.todo : \A y \in xref.todo : x <= y
       IN  xref' = [xref EXCEPT
                        !.todo = @ \ {u},
                        !.doc_ids = Append(@, u),
                        !.content[u] = full_content_of]
    /\ UNCHANGED notXrefVars

\* await asyncio.gather(*tasks) raises: the call ends there.
XrefWaveRaises ==
    /\ xref.pc = "waves"
    /\ xref.todo # {}
    /\ xref' = [xref EXCEPT !.pc = "failed"]
    /\ UNCHANGED notXrefVars

\* The for loop over dep_graph is over.
XrefWavesDone ==
    /\ xref.pc = "waves"
    /\ xref.todo = {}
    /\ xref' = [xref EXCEPT !.pc = "pass"]
    /\ UNCHANGED notXrefVars

\* await self._create_document_relationships(doc_ids); return doc_ids
CreateDocumentRelationships ==
    /\ xref.pc = "pass"
    /\ \E docs \in RowOrders(SeqRange(xref.doc_ids)) :
          xref' = [xref EXCEPT
                      !.pc = "returned",
                      !.edges = @ \cup RelationshipEdges(docs, xref.content)]
    /\ UNCHANGED notXrefVars

NextXref ==
    \/ \E c \in XrefContents : XrefWaveReturns(c)
    \/ XrefWaveRaises
    \/ XrefWavesDone
    \/ CreateDocumentRelationships

\* =====================================================================
\* VersionManager
\* =====================================================================
\* Ids are handed out in order of creation and never reused; a document
\* node and the graph node created with it carry the same number.
DocIds == 1..MaxDocs

\* Contents are opaque texts the manager copies and never inspects: every
\* generated or edited text is a new one, named by the number of the node
\* it is first stored in.  Only revert_to_version stores an old text again.
FreshContent == doc_count + 1

STACK_Z_OFFSET == 1
STACK_Y_OFFSET == 20

NoRows == [k \in {} |-> 0]

\* dict/row store helpers
RowPut(rows, id, row) ==
    [k \in DOMAIN rows \cup {id} |-> IF k = id THEN row ELSE rows[k]]

RowsDel(rows, ids) == [k \in DOMAIN rows \ ids |-> rows[k]]

\* The last call.  coroutine: the _broadcast_* coroutine object the call
\* created; delivered: the events the call sent to the subscribers of the
\* owning project.
NoOp ==
    [op |-> "none", document_id |-> None, error |-> "none", stack |-> <<>>,
     result |-> None, deleted_ids |-> <<>>, coroutine |-> "none",
     delivered |-> <<>>]

\* self._broadcast_version_created(new_doc, new_graph_node): the call of
\* an `async def` from a plain `def`, not awaited and not scheduled.  It
\* builds a coroutine object whose body (manager.broadcast_to_project)
\* never runs; the object is dropped when the method returns.
BroadcastVersionCreated(op) ==
    [op EXCEPT !.coroutine = "version_created", !.delivered = <<>>]

\* self._broadcast_stack_collapsed(...): called the same way.
BroadcastStackCollapsed(op) ==
    [op EXCEPT !.coroutine = "stack_collapsed", !.delivered = <<>>]

InitVer ==
    /\ documents = NoRows
    /\ graph_nodes = NoRows
    /\ graph_edges = {}
    /\ doc_count = 0
    /\ last_op = NoOp

\* A finished generation unit: a graph node at the default position and a
\* first-version document node with the generated content.
CreateRoot ==
    /\ doc_count < MaxDocs
    /\ LET id == doc_count + 1
       IN /\ graph_nodes' = RowPut(graph_nodes, id,
                 [position_x |-> 0, position_y |-> 0, position_z |-> 0,
                  parent_id |-> None])
          /\ documents' = RowPut(documents, id,
                 [graph_node_id |-> id, content |-> FreshContent, version |-> 1,
                  parent_version_id |-> None, is_latest |-> TRUE,
                  reverted_from_version |-> None])
          /\ doc_count' = id
          /\ last_op' = [NoOp EXCEPT !.op = "create_root", !.result = id]
    /\ UNCHANGED graph_edges
    /\ UNCHANGED notVerVars

\* A root lookup that stops at the node it was given.
GetRootId_Self(docs, id) == id

\* _get_root_id(doc): walks parent_version_id while it is set and the
\* parent row exists.
RECURSIVE GetRootId(_, _)
GetRootId(docs, id) ==
    LET parent == docs[id].parent_version_id
    IN IF parent # None /\ parent \in DOMAIN docs
       THEN GetRootId(docs, parent)
       ELSE id

\* where (id == root_id) | (parent_version_id == root_id)
StackQuery(docs, root_id) ==
    {d \in DOMAIN docs : d = root_id \/ docs[d].parent_version_id = root_id}

\* order_by(version): every order of the rows with ascending version; rows
\* with equal version come in an order the store chooses.
RECURSIVE OrderedByVersion(_, _)
OrderedByVersion(docs, rows) ==
    IF rows = {} THEN {<<>>}
    ELSE LET first == {d \in rows : \A e \in rows : docs[d].version <= docs[e].version}
         IN UNION {{<<d>> \o rest : rest \in OrderedByVersion(docs, rows \ {d})} :
                   d \in first}

\* get_version_stack(document_id).versions: the possible result lists.
VersionStacks(docs, id) ==
    OrderedByVersion(docs, StackQuery(docs, GetRootId(docs, id)))

\* VersionStack.get_latest: max(versions, key=version), the first maximal
\* element of the list.
GetLatest(docs, versions) ==
    versions[CHOOSE i \in DOMAIN versions :
                /\ \A j \in DOMAIN versions :
                      docs[versions[j]].version <= docs[versions[i]].version
                /\ \A j \in 1..(i - 1) :
                      docs[versions[j]].version < docs[versions[i]].version]

\* VersionStack.get_version: the first element with that version, or None.
GetVersion(docs, versions, version_number) ==
    LET hits == {i \in DOMAIN versions : docs[versions[i]].version = version_number}
    IN IF hits = {} THEN None
       ELSE versions[CHOOSE i \in hits : \A j \in hits : i <= j]

\* A create_new_version that also stores the new content in the current
\* row.
NewVersionRows_Rewriting(docs, gnodes, edges, id, new_id, new_content, reverted_from) ==
    LET current_doc == docs[id]
        current_graph_node == gnodes[current_doc.graph_node_id]
        new_graph_node ==
            [position_x |-> current_graph_node.position_x,
             position_y |-> current_graph_node.position_y - STACK_Y_OFFSET,
             position_z |-> current_graph_node.position_z + STACK_Z_OFFSET,
             parent_id |-> current_doc.graph_node_id]
        new_doc ==
            [graph_node_id |-> new_id, content |-> new_content,
             version |-> current_doc.version + 1,
             parent_version_id |-> id, is_latest |-> TRUE,
             reverted_from_version |->
                 IF reverted_from # None THEN reverted_from
                 ELSE current_doc.reverted_from_version]
    IN [documents |-> RowPut([docs EXCEPT ![id].is_latest = FALSE,
                                          ![id].content = new_content],
                             new_id, new_doc),
        graph_nodes |-> RowPut(gnodes, new_id, new_graph_node),
        graph_edges |-> edges \cup {[source_id |-> new_id,
                                     target_id |-> current_doc.graph_node_id]}]

\* The rows create_new_version writes for current_doc = docs[id]: the
\* current row loses is_latest, a graph node is stacked on the current
\* one, the new document row and the supersedes edge are added.
\* metadata is {**current.metadata, **metadata}.
NewVersionRows(docs, gnodes, edges, id, new_id, new_content, reverted_from) ==
    LET current_doc == docs[id]
        current_graph_node == gnodes[current_doc.graph_node_id]
        new_graph_node ==
            [position_x |-> current_graph_node.position_x,
             position_y |-> current_graph_node.position_y - STACK_Y_OFFSET,
             position_z |-> current_graph_node.position_z + STACK_Z_OFFSET,
             parent_id |-> current_doc.graph_node_id]
        new_doc ==
            [graph_node_id |-> new_id, content |-> new_content,
             version |-> current_doc.version + 1,
             parent_version_id |-> id, is_latest |-> TRUE,
             reverted_from_version |->
                 IF reverted_from # None THEN reverted_from
                 ELSE current_doc.reverted_from_version]
    IN [documents |-> RowPut([docs EXCEPT ![id].is_latest = FALSE], new_id, new_doc),
        graph_nodes |-> RowPut(gnodes, new_id, new_graph_node),
        graph_edges |-> edges \cup {[source_id |-> new_id,
                                     target_id |-> current_doc.graph_node_id]}]

\* The call raised ValueError before it wrote anything.
Raises(op, document_id) ==
    /\ last_op' = [NoOp EXCEPT !.op = op, !.document_id = document_id,
                               !.error = "ValueError"]
    /\ UNCHANGED <<documents, graph_nodes, graph_edges, doc_count>>

\* create_new_version found current_doc but not its graph node: it raises
\* ValueError after `current_doc.is_latest = False; session.add(current_doc)`.
\* The session holds the changed row: every later read through the session
\* returns it and the session's next flush writes it.
RaisesAfterUnlatest(op, document_id, current) ==
    /\ last_op' = [NoOp EXCEPT !.op = op, !.document_id = document_id,
                               !.error = "ValueError"]
    /\ documents' = [documents EXCEPT ![current].is_latest = FALSE]
    /\ UNCHANGED <<graph_nodes, graph_edges, doc_count>>

\* create_new_version(document_id, new_content, metadata=None).
CreateNewVersion(document_id) ==
    /\ IF document_id \notin DOMAIN documents
       THEN Raises("create_new_version", document_id)
       ELSE IF documents[document_id].graph_node_id \notin DOMAIN graph_nodes
       THEN RaisesAfterUnlatest("create_new_version", document_id, document_id)
       ELSE /\ doc_count < MaxDocs
            /\ LET new_id == doc_count + 1
                   rows == NewVersionRows(documents, graph_nodes, graph_edges,
                                          document_id, new_id, FreshContent, None)
               IN /\ documents' = rows.documents
                  /\ graph_nodes' = rows.graph_nodes
                  /\ graph_edges' = rows.graph_edges
                  /\ doc_count' = new_id
                  /\ last_op' = BroadcastVersionCreated(
                                     [NoOp EXCEPT !.op = "create_new_version",
                                                  !.document_id = document_id,
                                                  !.result = new_id])
    /\ UNCHANGED notVerVars

\* get_version_stack(document_id)
GetVersionStack(document_id) ==
    /\ IF document_id \notin DOMAIN documents
       THEN Raises("get_version_stack", document_id)
       ELSE /\ \E versions \in VersionStacks(documents, document_id) :
                 last_op' = [NoOp EXCEPT !.op = "get_version_stack",
                                        !.document_id = document_id,
                                        !.stack = versions,
                                        !.result = GetRootId(documents, document_id)]
            /\ UNCHANGED <<documents, graph_nodes, graph_edges, doc_count>>
    /\ UNCHANGED notVerVars

\* collapse_stack(document_id)
CollapseStack(document_id) ==
    /\ IF document_id \notin DOMAIN documents
       THEN Raises("collapse_stack", document_id)
       ELSE /\ \E versions \in VersionStacks(documents, document_id) :
                 LET latest == GetLatest(documents, versions)
                     deleted_ids == SelectSeq(versions, LAMBDA v : v # latest)
                 IN /\ graph_nodes' = RowsDel(graph_nodes,
                           {documents[v].graph_node_id : v \in Range(deleted_ids)})
                    /\ documents' = RowsDel(documents, Range(deleted_ids))
                    /\ last_op' = BroadcastStackCollapsed(
                                       [NoOp EXCEPT !.op = "collapse_stack",
                                                    !.document_id = document_id,
                                                    !.stack = versions,
                                                    !.result = latest,
                                                    !.deleted_ids = deleted_ids])
            /\ UNCHANGED <<graph_edges, doc_count>>
    /\ UNCHANGED notVerVars

\* revert_to_version(document_id, version_number)
RevertToVersion(document_id, version_number) ==
    /\ IF document_id \notin DOMAIN documents
       THEN Raises("revert_to_version", document_id)
       ELSE \E versions \in VersionStacks(documents, document_id) :
              LET target_version == GetVersion(documents, versions, version_number)
                  latest == GetLatest(documents, versions)
                  new_id == doc_count + 1
              IN IF target_version = None
                 THEN Raises("revert_to_version", document_id)
                 ELSE IF documents[latest].graph_node_id \notin DOMAIN graph_nodes
                 THEN RaisesAfterUnlatest("revert_to_version", document_id, latest)
                 ELSE /\ doc_count < MaxDocs
                      /\ LET rows == NewVersionRows(documents, graph_nodes,
                                        graph_edges, latest, new_id,
                                        documents[target_version].content,
                                        version_number)
                         IN /\ documents' = rows.documents
                            /\ graph_nodes' = rows.graph_nodes
                            /\ graph_edges' = rows.graph_edges
                            /\ doc_count' = new_id
                            /\ last_op' = BroadcastVersionCreated(
                                             [NoOp EXCEPT
                                                 !.op = "revert_to_version",
                                                 !.document_id = document_id,
                                                 !.stack = versions,
                                                 !.result = new_id])
    /\ UNCHANGED notVerVars

NextVer ==
    \/ CreateRoot
    \/ \E id \in DocIds : CreateNewVersion(id)
    \/ \E id \in DocIds : GetVersionStack(id)
    \/ \E id \in DocIds : CollapseStack(id)
    \/ \E id \in DocIds, n \in 1..MaxDocs : RevertToVersion(id, n)

\* ---------------------------------------------------------------------
\* The documents API on the same store
\* ---------------------------------------------------------------------
\* PUT /{document_id} with the default create_version=True.  The new
\* document row is added with the graph_node_id of the current one; when
\* the current graph node is found, a graph node is added at the same x
\* and y, one step up in z, and the new row is pointed at it.  No edge is
\* written.  DocumentNode.graph_node_id is declared unique: a store that
\* enforces the declaration rejects the new row when the session flushes
\* it (accepted = FALSE) and the request fails with nothing written.
UpdateDocument(document_id, accepted) ==
    /\ IF document_id \notin DOMAIN documents
       THEN /\ last_op' = [NoOp EXCEPT !.op = "update_document",
                                       !.document_id = document_id,
                                       !.error = "HTTPException"]
            /\ UNCHANGED <<documents, graph_nodes, graph_edges, doc_count>>
       ELSE IF ~accepted
       THEN /\ last_op' = [NoOp EXCEPT !.op = "update_document",
                                       !.document_id = document_id,
                                       !.error = "IntegrityError"]
            /\ UNCHANGED <<documents, graph_nodes, graph_edges, doc_count>>
       ELSE /\ doc_count < MaxDocs
            /\ LET doc == documents[document_id]
                   new_id == doc_count + 1
                   found == doc.graph_node_id \in DOMAIN graph_nodes
                   graph_node == graph_nodes[doc.graph_node_id]
                   new_graph_node ==
                       [position_x |-> graph_node.position_x,
                        position_y |-> graph_node.position_y,
                        position_z |-> graph_node.position_z + 1,
                        parent_id |-> doc.graph_node_id]
                   new_doc ==
                       [graph_node_id |-> IF found THEN new_id ELSE doc.graph_node_id,
                        content |-> FreshContent,
                        version |-> doc.version + 1,
                        parent_version_id |-> document_id, is_latest |-> TRUE,
                        reverted_from_version |-> doc.reverted_from_version]
               IN /\ documents' = RowPut([documents EXCEPT
                                             ![document_id].is_latest = FALSE],
                                         new_id, new_doc)
                  /\ graph_nodes' = IF found
                                    THEN RowPut(graph_nodes, new_id, new_graph_node)
                                    ELSE graph_nodes
                  /\ doc_count' = new_id
                  /\ last_op' = [NoOp EXCEPT !.op = "update_document",
                                             !.document_id = document_id,
                                             !.result = new_id]
            /\ UNCHANGED graph_edges
    /\ UNCHANGED notVerVars

\* The persistence interface's delete of one visual node, as the graph
\* side of the application uses it: the row goes, the document rows that
\* name it stay.
DeleteGraphNode(g) ==
    /\ g \in DOMAIN graph_nodes
    /\ graph_nodes' = RowsDel(graph_nodes, {g})
    /\ last_op' = [NoOp EXCEPT !.op = "delete_graph_node"]
    /\ UNCHANGED <<documents, graph_edges, doc_count>>
    /\ UNCHANGED notVerVars

\* The operations that write versions, and the delete of a visual node.
NextDocuments ==
    \/ CreateRoot
    \/ \E id \in DocIds : CreateNewVersion(id)
    \/ \E id \in DocIds, accepted \in BOOLEAN : UpdateDocument(id, accepted)
    \/ \E g \in DocIds : DeleteGraphNode(g)

\* =====================================================================
\* VersionDiffService
\* =====================================================================
\* A content is a string: a sequence of characters, NEWLINE among them.
NEWLINE == 0
Chars == 0..NumChars

ContentStrings == UNION {[1..n -> Chars] : n \in 0..MaxContentLen}

\* str.splitlines(): every newline ends a line; what follows the last
\* newline is a line only when it is not empty.
RECURSIVE SplitLinesFrom(_, _)
SplitLinesFrom(s, current) ==
    IF s = <<>> THEN (IF current = <<>> THEN <<>> ELSE <<current>>)
    ELSE IF Head(s) = NEWLINE
         THEN <<current>> \o SplitLinesFrom(Tail(s), <<>>)
         ELSE SplitLinesFrom(Tail(s), Append(current, Head(s)))

SplitLines(s) == SplitLinesFrom(s, <<>>)

\* Blocks are [i, j, k]: a[i..i+k-1] = b[j..j+k-1], positions from 1.
Block(i, j, k) == [i |-> i, j |-> j, k |-> k]

\* A matcher that finds nothing in common.
LongestMatch_None(a, alo, ahi, b, blo, bhi) == Block(alo, blo, 0)

\* SequenceMatcher.find_longest_match (no junk): the longest block inside
\* a[alo..ahi], b[blo..bhi]; of those the one starting earliest in a, then
\* earliest in b; size 0 when nothing matches.
LongestMatch(a, alo, ahi, b, blo, bhi) ==
    LET blocks == {blk \in {Block(i, j, k) : i \in alo..ahi, j \in blo..bhi,
                                             k \in 1..MaxContentLen} :
                      /\ blk.i + blk.k - 1 <= ahi
                      /\ blk.j + blk.k - 1 <= bhi
                      /\ \A t \in 0..(blk.k - 1) : a[blk.i + t] = b[blk.j + t]}
    IN IF blocks = {} THEN Block(alo, blo, 0)
       ELSE CHOOSE x \in blocks : \A y \in blocks :
                \/ x.k > y.k
                \/ x.k = y.k /\ x.i < y.i
                \/ x.k = y.k /\ x.i = y.i /\ x.j <= y.j

\* SequenceMatcher.get_matching_blocks, without the closing sentinel: the
\* longest match, then the same to its left and to its right.
RECURSIVE MatchingBlocks(_, _, _, _, _, _)
MatchingBlocks(a, alo, ahi, b, blo, bhi) ==
    IF alo > ahi \/ blo > bhi THEN <<>>
    ELSE LET m == LongestMatch(a, alo, ahi, b, blo, bhi)
         IN IF m.k = 0 THEN <<>>
            ELSE MatchingBlocks(a, alo, m.i - 1, b, blo, m.j - 1)
                 \o <<m>>
                 \o MatchingBlocks(a, m.i + m.k, ahi, b, m.j + m.k, bhi)

AllMatchingBlocks(a, b) == MatchingBlocks(a, 1, Len(a), b, 1, Len(b))

Opcode(tag, i1, i2, j1, j2) == [tag |-> tag, i1 |-> i1, i2 |-> i2, j1 |-> j1, j2 |-> j2]

\* SequenceMatcher.get_opcodes: a[i1..i2-1] against b[j1..j2-1].
RECURSIVE OpcodesFrom(_, _, _)
OpcodesFrom(blocks, i, j) ==
    IF blocks = <<>> THEN <<>>
    ELSE LET m == Head(blocks)
             gap == IF i < m.i /\ j < m.j THEN <<Opcode("replace", i, m.i, j, m.j)>>
                    ELSE IF i < m.i THEN <<Opcode("delete", i, m.i, j, m.j)>>
                    ELSE IF j < m.j THEN <<Opcode("insert", i, m.i, j, m.j)>>
                    ELSE <<>>
             equal == IF m.k > 0
                      THEN <<Opcode("equal", m.i, m.i + m.k, m.j, m.j + m.k)>>
                      ELSE <<>>
         IN gap \o equal \o OpcodesFrom(Tail(blocks), m.i + m.k, m.j + m.k)

GetOpcodes(a, b) ==
    OpcodesFrom(Append(AllMatchingBlocks(a, b), Block(Len(a) + 1, Len(b) + 1, 0)), 1, 1)

\* unified_diff(..., n=3)
CONTEXT_LINES == 3

Max(a, b) == IF a >= b THEN a ELSE b

\* SequenceMatcher.get_grouped_opcodes(n): the leading and the trailing
\* equal run are cut to n lines and a lone equal run gives no group.  A
\* group is split only at an equal run of more than 2n lines, which the
\* contents compared here are too short to have.
GroupedOpcodes(codes) ==
    LET c0 == IF codes = <<>> THEN <<Opcode("equal", 1, 2, 1, 2)>> ELSE codes
        c1 == IF c0[1].tag = "equal"
              THEN [c0 EXCEPT ![1].i1 = Max(@, c0[1].i2 - CONTEXT_LINES),
                              ![1].j1 = Max(@, c0[1].j2 - CONTEXT_LINES)]
              ELSE c0
        last == Len(c1)
        c2 == IF c1[last].tag = "equal"
              THEN [c1 EXCEPT ![last].i2 = Min(@, c1[last].i1 + CONTEXT_LINES),
                              ![last].j2 = Min(@, c1[last].j1 + CONTEXT_LINES)]
              ELSE c1
    IN IF Len(c2) = 1 /\ c2[1].tag = "equal" THEN <<>> ELSE <<c2>>

\* A line of the diff: what it starts with, and the text after it.
DiffLine(prefix, text) == [prefix |-> prefix, text |-> text]

\* The lines one opcode contributes to a hunk.
OpcodeLines(a, b, code) ==
    LET from_a(prefix) == [t \in 1..(code.i2 - code.i1) |->
                              DiffLine(prefix, a[code.i1 + t - 1])]
        from_b(prefix) == [t \in 1..(code.j2 - code.j1) |->
                              DiffLine(prefix, b[code.j1 + t - 1])]
    IN IF code.tag = "equal" THEN from_a(" ")
       ELSE (IF code.tag \in {"replace", "delete"} THEN from_a("-") ELSE <<>>)
            \o (IF code.tag \in {"replace", "insert"} THEN from_b("+") ELSE <<>>)

RECURSIVE GroupLines(_, _, _)
GroupLines(a, b, group) ==
    IF group = <<>> THEN <<>>
    ELSE OpcodeLines(a, b, Head(group)) \o GroupLines(a, b, Tail(group))

\* difflib.unified_diff(a, b, lineterm='', n=3): the two file header lines
\* before the first hunk, a range line, then the hunk.
UnifiedDiff(a, b) ==
    LET groups == GroupedOpcodes(GetOpcodes(a, b))
    IN IF groups = <<>> THEN <<>>
       ELSE LET group == groups[1]
                first == group[1]
                last == group[Len(group)]
            IN <<DiffLine("---", <<>>), DiffLine("+++", <<>>),
                 DiffLine("@@", <<first.i1, last.i2 - first.i1,
                                  first.j1, last.j2 - first.j1>>)>>
               \o GroupLines(a, b, group)

\* line.startswith('+') / line.startswith('-')
StartsWith(line, ch) ==
    \/ line.prefix = ch
    \/ ch = "+" /\ line.prefix = "+++"
    \/ ch = "-" /\ line.prefix = "---"

\* What is left to iterate of a generator after list(diff) has run it.
ExhaustedBy(lines) == SubSeq(lines, Len(lines) + 1, Len(lines))

\* VersionDiffService.compute_diff
ComputeDiff(a, b) ==
    LET diff == UnifiedDiff(SplitLines(a), SplitLines(b))
        diff_lines == diff
        rest == ExhaustedBy(diff)
    IN [diff_lines |-> diff_lines,
        added_lines |-> Cardinality({t \in DOMAIN rest : StartsWith(rest[t], "+")}),
        removed_lines |-> Cardinality({t \in DOMAIN rest : StartsWith(rest[t], "-")})]

RECURSIVE BlockSum(_)
BlockSum(blocks) == IF blocks = <<>> THEN 0 ELSE Head(blocks).k + BlockSum(Tail(blocks))

\* VersionDiffService.compute_similarity: SequenceMatcher(None, a, b).ratio()
\* over the characters, 2.0 * matches / length, and 1.0 for two empty
\* strings; kept as a fraction.
ComputeSimilarity(a, b) ==
    LET length == Len(a) + Len(b)
    IN IF length = 0 THEN [num |-> 1, den |-> 1]
       ELSE [num |-> 2 * BlockSum(AllMatchingBlocks(a, b)), den |-> length]

NoComparison ==
    [done |-> FALSE,
     diff |-> [diff_lines |-> <<>>, added_lines |-> 0, removed_lines |-> 0],
     similarity |-> [num |-> 0, den |-> 1]]

\* Nothing is being compared.
InitDiffIdle ==
    /\ content_a = <<>>
    /\ content_b = <<>>
    /\ comparison = NoComparison

\* The contents of the two versions the endpoint was asked to compare.
InitDiff ==
    /\ content_a \in ContentStrings
    /\ content_b \in ContentStrings
    /\ comparison = NoComparison

\* compare_versions endpoint: compute_diff and compute_similarity of the
\* two contents.
Compare ==
    /\ ~comparison.done
    /\ comparison' = [done |-> TRUE,
                      diff |-> ComputeDiff(content_a, content_b),
                      similarity |-> ComputeSimilarity(content_a, content_b)]
    /\ UNCHANGED <<content_a, content_b>>
    /\ UNCHANGED notDiffVars

NextDiff == Compare

\* =====================================================================
\* Specifications
\* =====================================================================
InitSpecPlan == InitPlan /\ InitHub /\ InitQueue /\ InitGen /\ InitSse /\ InitVer /\ InitDiffIdle /\ InitPersonal /\ InitUnitIdle /\ InitXrefIdle /\ InitTaskIdle

SpecPlan == InitSpecPlan /\ [][NextPlan]_vars

InitSpecHub == InitPlanIdle /\ InitHub /\ InitQueue /\ InitGen /\ InitSse /\ InitVer /\ InitDiffIdle /\ InitPersonal /\ InitUnitIdle /\ InitXrefIdle /\ InitTaskIdle

SpecHub == InitSpecHub /\ [][NextHub]_vars

InitSpecHandler == InitPlanIdle /\ InitHub /\ InitQueue /\ InitGen /\ InitSse /\ InitVer /\ InitDiffIdle /\ InitPersonal /\ InitUnitIdle /\ InitXrefIdle /\ InitTaskIdle

SpecHandler == InitSpecHandler /\ [][NextHandler]_vars

InitSpecQueue == InitPlanIdle /\ InitHub /\ InitQueue /\ InitGen /\ InitSse /\ InitVer /\ InitDiffIdle /\ InitPersonal /\ InitUnitIdle /\ InitXrefIdle /\ InitTaskIdle

SpecQueue == InitSpecQueue /\ [][NextQueue]_vars

\* The event loop runs every done callback (call_soon) and every created
\* _start_next_stream task; every started stream eventually terminates.
\* Callers are free to submit or not.
FairQueue ==
    /\ \A d \in Streams : WF_vars(StreamFinish(d))
    /\ \A d \in Streams : WF_vars(OnStreamComplete(d))
    /\ WF_vars(StartNextStream)

SpecQueueFair == InitSpecQueue /\ [][NextQueue]_vars /\ FairQueue

InitSpecGen == InitPlanIdle /\ InitHub /\ InitQueue /\ InitGen /\ InitSse /\ InitVer /\ InitDiffIdle /\ InitPersonal /\ InitUnitIdle /\ InitXrefIdle /\ InitTaskIdle

SpecGen == InitSpecGen /\ [][NextGen]_vars

InitSpecUnit == InitPlanIdle /\ InitHub /\ InitQueue /\ InitGen /\ InitSse /\ InitVer /\ InitDiffIdle /\ InitPersonal /\ InitUnitIdle /\ InitXrefIdle /\ InitTaskIdle

SpecUnit == InitSpecUnit /\ [][NextUnit]_vars

InitSpecXref == InitPlanIdle /\ InitHub /\ InitQueue /\ InitGen /\ InitSse /\ InitVer /\ InitDiffIdle /\ InitPersonal /\ InitUnitIdle /\ InitXref /\ InitTaskIdle

SpecXref == InitSpecXref /\ [][NextXref]_vars

InitSpecTask == InitPlanIdle /\ InitHub /\ InitQueue /\ InitGen /\ InitSse /\ InitVer /\ InitDiffIdle /\ InitPersonal /\ InitUnitIdle /\ InitXrefIdle /\ InitTask

SpecTask == InitSpecTask /\ [][NextTask]_vars

InitSpecSse == InitPlanIdle /\ InitHub /\ InitQueue /\ InitGen /\ InitSse /\ InitVer /\ InitDiffIdle /\ InitPersonal /\ InitUnitIdle /\ InitXrefIdle /\ InitTaskIdle

SpecSse == InitSpecSse /\ [][NextSse]_vars

InitSpecVer == InitPlanIdle /\ InitHub /\ InitQueue /\ InitGen /\ InitSse /\ InitVer /\ InitDiffIdle /\ InitPersonal /\ InitUnitIdle /\ InitXrefIdle /\ InitTaskIdle

SpecVer == InitSpecVer /\ [][NextVer]_vars

InitSpecDocuments == InitPlanIdle /\ InitHub /\ InitQueue /\ InitGen /\ InitSse /\ InitVer /\ InitDiffIdle /\ InitPersonal /\ InitUnitIdle /\ InitXrefIdle /\ InitTaskIdle

SpecDocuments == InitSpecDocuments /\ [][NextDocuments]_vars

InitSpecDiff == InitPlanIdle /\ InitHub /\ InitQueue /\ InitGen /\ InitSse /\ InitVer /\ InitDiff /\ InitPersonal /\ InitUnitIdle /\ InitXrefIdle /\ InitTaskIdle

SpecDiff == InitSpecDiff /\ [][NextDiff]_vars

\* ---------------------------------------------------------------------
\* Properties of the planner
\* ---------------------------------------------------------------------
ListTypes(T) == {T[i].doc_type : i \in 1..Len(T)}

DepsOf(T, dt) == UNION {T[i].dependencies : i \in {j \in 1..Len(T) : T[j].doc_type = dt}}

\* doc_types reachable from the set S in 1..n dependency steps.
RECURSIVE ReachN(_, _, _)
ReachN(T, S, n) ==
    IF n = 0 THEN {}
    ELSE LET nxt == UNION {DepsOf(T, d) : d \in S}
         IN nxt \cup ReachN(T, nxt, n - 1)

Acyclic(T) == \A i \in 1..Len(T) : T[i].doc_type \notin ReachN(T, {T[i].doc_type}, Len(T))

\* Every dependency names a doc_type of the list.
Closed(T) == \A i \in 1..Len(T) : T[i].dependencies \subseteq ListTypes(T)

\* Number of (wave, position) places holding template t.
RECURSIVE Placed(_, _)
Placed(ws, t) == IF ws = <<>> THEN 0 ELSE Count(Head(ws), t) + Placed(Tail(ws), t)

CoversOnce == \A k \in 1..Len(templates) : Placed(waves, templates[k]) = 1

DepsInEarlierWaves ==
    \A i \in 2..Len(waves) : \A p \in 1..Len(waves[i]) :
        \A dep \in waves[i][p].dependencies :
            \E j \in 1..(i - 1) : dep \in WaveTypes(waves[j])

\* C1 (as stated): for every template list without dependency cycles the
\* returned waves cover every template exactly once and every dependency of
\* a template in wave i>0 is the doc_type of a template in an earlier wave.
C1_AcyclicOrdered ==
    (plan_pc = "done" /\ Acyclic(templates)) => (CoversOnce /\ DepsInEarlierWaves)

\* C1 (amended): the same, for template lists without cycles whose
\* dependencies all name doc_types of the list.
C1_AcyclicClosedOrdered ==
    (plan_pc = "done" /\ Acyclic(templates) /\ Closed(templates))
        => (CoversOnce /\ DepsInEarlierWaves)

C1_Witness ==
    /\ plan_pc = "done"
    /\ Acyclic(templates) /\ Closed(templates)
    /\ Len(waves) = 3
    /\ \E p \in 1..Len(waves[3]) : Cardinality(waves[3][p].dependencies) = 2

\* C2: for every template list (cycles and dependencies outside the list
\* included) every input template is in exactly one place (still remaining,
\* or in one wave; in one wave once the plan is returned), and every
\* template of a wave is an input template.
C2_ScheduledExactlyOnce ==
    /\ \A k \in 1..Len(templates) :
          Placed(waves, templates[k]) + Count(remaining, templates[k]) = 1
    /\ plan_pc = "done" => CoversOnce
    /\ \A i \in 1..Len(waves) : Range(waves[i]) \subseteq Range(templates)

C2_Witness ==
    /\ plan_pc = "done"
    /\ ~Acyclic(templates) /\ ~Closed(templates)
    /\ Len(templates) = 2
    /\ Len(waves) = 2

\* C3: the loop runs at most |templates| iterations: each iteration emits
\* a non-empty wave and shrinks the remaining list by that wave, the loop
\* returns with nothing remaining, and an empty input returns an empty wave
\* list.
C3_Terminates ==
    /\ iterations = Len(waves)
    /\ iterations <= Len(templates)
    /\ \A i \in 1..Len(waves) : waves[i] # <<>>
    /\ Len(remaining) + SeqSum(waves) = Len(templates)
    /\ plan_pc = "done" => remaining = <<>>
    /\ (plan_pc = "done" /\ templates = <<>>) => waves = <<>>

C3_Witness ==
    /\ plan_pc = "done"
    /\ Len(templates) = 3
    /\ iterations = Len(templates)
    /\ Stalled(<<templates[3]>>, ListTypes(templates) \ {templates[3].doc_type})

C3_WitnessEmpty == plan_pc = "done" /\ templates = <<>> /\ waves = <<>>

\* The doc_types placed by the waves before wave i.
TypesBefore(i) == UNION {WaveTypes(waves[j]) : j \in 1..(i - 1)}

\* Wave i was emitted by the fallback: a normal wave holds selectable
\* templates only, a fallback wave holds none.
FallbackWave(i) ==
    \E p \in 1..Len(waves[i]) : ~Selectable(waves[i][p], TypesBefore(i))

FallbackTaken == \E i \in 1..Len(waves) : FallbackWave(i)

\* C22: whenever an iteration has taken the fallback, the call has emitted
\* a degraded-schedule signal that tells the plan from a normal one.
C22_FallbackSignalled ==
    FallbackTaken => plan_signals # <<>>

\* ---------------------------------------------------------------------
\* Properties of the ConnectionManager
\* ---------------------------------------------------------------------
BcFinished == bc.pc \in {"returned", "raised"}

Registry == <<project_connections, document_connections, global_connections>>

\* C6: a broadcast in which a send failed does not raise, has removed the
\* subscribers whose send failed and no other, and has sent the message to
\* every other subscriber of the bucket.
C6_SendFailureIsolated ==
    (BcFinished /\ bc.disconnected # {}) =>
        /\ bc.pc = "returned"
        /\ bc.disconnected \cap Bucket(bc.scope) = {}
        /\ \A g \in bc.snapshot \ bc.disconnected :
              /\ g \notin disc_called => g \in Bucket(bc.scope)
              /\ g \in Bucket(bc.scope) => g \in bc.sent

\* C7: a broadcast that a connect or disconnect interleaves with never
\* raises (only such an interleaving changes the bucket under the loop).
C7_BroadcastNeverRaises == bc.pc # "raised"

\* C8: disconnect removes the handle from its bucket, leaves no empty
\* bucket behind, and leaves the registry unchanged when the handle is not
\* registered under its scope.
C8_DisconnectIdempotent ==
    [][\A h \in Handles :
          Disconnect(h) =>
             /\ h \notin Bucket(scope_of[h])'
             /\ (scope_of[h].kind # "global" /\ HasBucket(scope_of[h])')
                   => Bucket(scope_of[h])' # {}
             /\ h \notin Bucket(scope_of[h]) => Registry' = Registry]_vars

\* C9: a broadcast that starts after disconnect(h) has returned sends
\* nothing to h, and has sent the message, when it ends, to every
\* subscriber that was and still is registered in the bucket and whose send
\* did not fail.
C9_NoDeliveryAfterDisconnect ==
    bc.disc_at_start # {} =>
        /\ (bc.sent \cup bc.visited) \cap bc.disc_at_start = {}
        /\ BcFinished =>
              \A g \in bc.snapshot :
                 (g \in Bucket(bc.scope) /\ g \notin bc.disconnected) => g \in bc.sent

\* The first half of C9 alone.
DisconnectedNotServed ==
    (bc.sent \cup bc.visited) \cap bc.disc_at_start = {}

\* C23: a send_personal_message call whose send failed ends, for its
\* caller, with a failure outcome, and it has made that one send only.
C23_FailedSendReported ==
    personal.send_failed =>
        /\ personal.outcome = "raised"
        /\ personal.sends = 1

\* ---------------------------------------------------------------------
\* Properties of generate_documents_parallel
\* ---------------------------------------------------------------------
Terminal(t) == task_pc[t] \in {"done", "raised"}

\* C4: no task of wave N+1 exists (its coroutine created, its unit
\* persisted or announced) before every task of wave N is terminal.
C4_WaveBarrier ==
    \A i \in 1..(Len(dep_graph) - 1) :
        \A t \in WaveTypes(dep_graph[i + 1]) :
            (task_pc[t] # "absent" \/ doc_node[t].exists \/ events[t] # <<>>)
                => \A u \in WaveTypes(dep_graph[i]) : Terminal(u)

C4_Witness ==
    /\ Len(dep_graph) = 3
    /\ Len(dep_graph[2]) = 2
    /\ \E t \in WaveTypes(dep_graph[3]) : task_pc[t] = "stream"

\* C5: a unit whose content stream failed in the backend has had an error
\* event broadcast for it and keeps its persisted content.
C5_StreamFailureReported ==
    \A t \in CatalogTypes :
        task_pc[t] = "raised" =>
            /\ events[t] # <<>> /\ events[t][Len(events[t])].event = "error"
            /\ doc_node[t].content = <<>>

\* Positions in the unit's event list of the events with that name.
EventsNamed(t, name) == {i \in 1..Len(events[t]) : events[t][i].event = name}

\* The chunks the unit's content_chunk events carry, in broadcast order.
ChunkSeq(t) ==
    LET ce == SelectSeq(events[t], LAMBDA e : e.event = "content_chunk")
    IN [i \in 1..Len(ce) |-> ce[i].chunk]

\* The unit's chunk sequence is exhausted (the loop has ended normally).
Finalized(t) == task_pc[t] \in {"complete_bcast", "done"}

\* C28: for each unit, node_created to the project scope comes before
\* every content_chunk event, the content_chunk events carry the chunks in
\* the order the backend produced them, and exactly one completion event
\* is broadcast (once the chunk sequence is exhausted), after the last
\* content_chunk event.
C28_UnitEventOrder ==
    \A t \in CatalogTypes :
        LET completed == EventsNamed(t, "generation_complete")
            chunks == EventsNamed(t, "content_chunk")
        IN /\ events[t] # <<>> =>
                 /\ events[t][1].event = "node_created"
                 /\ events[t][1].scope = "project"
           /\ \A i \in chunks : \E j \in EventsNamed(t, "node_created") : j < i
           /\ ChunkSeq(t) = full_content[t]
           /\ \A i \in 1..Len(ChunkSeq(t)) : ChunkSeq(t)[i] = i
           /\ Cardinality(completed) <= 1
           /\ Finalized(t) => Cardinality(completed) = 1
           /\ \A c \in completed : \A i \in chunks : i < c

\* A unit finished after two chunks or more while another unit of its
\* wave is still streaming.
C28_Witness ==
    \E t, u \in CatalogTypes :
        /\ t # u
        /\ task_pc[t] = "done"
        /\ Len(full_content[t]) >= 2
        /\ task_pc[u] = "chunk_bcast"

\* C29: once a unit's completion event is broadcast the unit is persisted
\* with the concatenation of all its chunks in order, is_generating=false
\* and progress 1.0; from its creation until then it is persisted with
\* is_generating=true.
C29_FinalStateBeforeCompletion ==
    \A t \in CatalogTypes :
        /\ EventsNamed(t, "generation_complete") # {} =>
              /\ doc_node[t].exists
              /\ doc_node[t].content = ChunkSeq(t)
              /\ ~doc_node[t].is_generating
              /\ doc_node[t].progress = 100
        /\ (doc_node[t].exists /\ ~Finalized(t)) => doc_node[t].is_generating

\* A unit's completion broadcast is in flight after two chunks or more.
C29_Witness ==
    \E t \in CatalogTypes :
        /\ task_pc[t] = "complete_bcast"
        /\ Len(doc_node[t].content) >= 2

\* C30: no unit of a wave has a content chunk broadcast before every unit
\* of the wave is created (persisted, and announced to the project scope).
C30_WaveCreatedBeforeChunks ==
    \A i \in 1..Len(dep_graph) :
        \A t \in WaveTypes(dep_graph[i]) :
            EventsNamed(t, "content_chunk") # {} =>
                \A u \in WaveTypes(dep_graph[i]) :
                    /\ doc_node[u].exists
                    /\ EventsNamed(u, "node_created") # {}

\* The content_chunk events the unit's task has broadcast.
ChunkEvents == {i \in 1..Len(unit.events) : unit.events[i].event = "content_chunk"}

\* min(full_len / estimated_tokens, 1.0) as a fraction over estimated_tokens.
MinWithOne(full_len, est) == [num |-> Min(full_len, est), den |-> est]

\* C24: every content_chunk event carries
\* progress = min(accumulated_length / estimated_size, 1.0), a value within
\* [0, 1] also when the accumulated content is longer than the estimate.
C24_ProgressClamped ==
    \A i \in ChunkEvents :
        LET e == unit.events[i]
        IN /\ e.progress = MinWithOne(e.full_len, estimated_tokens[unit.doc_type])
           /\ 0 <= e.progress.num /\ e.progress.num <= e.progress.den

\* ---------------------------------------------------------------------
\* Properties of the StreamingQueue
\* ---------------------------------------------------------------------
Running == {d \in Streams : stream_state[d] = "running"}

\* C10: the number of streams started and not yet terminated never exceeds
\* max_concurrent.
C10_AtMostMaxConcurrent == Cardinality(Running) <= max_concurrent

\* Streams that have been started at some time.
Started == {d \in Streams : stream_state[d] \in {"running", "finished", "completed"}}

\* C11: requests that arrive while the cap is reached are started in
\* submission order, and no request submitted later is started while an
\* earlier-submitted request is still waiting in the queue.  Streams are
\* numbered in submission order, so no started stream may have a larger
\* number than a stream that is still in the queue, and the queue itself is
\* in submission order.
C11_FifoNoOvertaking ==
    /\ \A i, j \in 1..Len(queue) : i < j => queue[i] < queue[j]
    /\ \A e \in Range(queue) : \A d \in Started : d < e

\* Some stream was submitted and every submitted stream has terminated.
AllSubmittedTerminated ==
    /\ \E d \in Streams : stream_state[d] # "new"
    /\ \A d \in Streams : stream_state[d] \in {"new", "finished", "completed"}

\* C12: provided every active stream eventually finishes, every queued
\* stream is eventually started with no further caller action, and once all
\* submitted streams have terminated the active set and the queue are empty.
C12_QueuedEventuallyStarted ==
    /\ \A d \in Streams : (stream_state[d] = "queued") ~> (d \in Started)
    /\ AllSubmittedTerminated ~> (active_streams = {} /\ queue = <<>>)

\* A stream has terminated while the queue was not empty: its callback has
\* freed a slot and scheduled the start of the head of the queue.
C12_Witness ==
    /\ queue # <<>>
    /\ pending_starts > 0
    /\ Cardinality(active_streams) < max_concurrent
    /\ \E d \in Streams : stream_state[d] = "completed"

\* ---------------------------------------------------------------------
\* document_stream_generator
\* ---------------------------------------------------------------------
TerminalEvents == {"complete", "error"}

\* The events after the first one and before the terminal one (all events
\* after the first while the run has not ended).
MiddleEvents ==
    IF sse_events = <<>> THEN <<>>
    ELSE SubSeq(sse_events, 2,
                IF sse_pc = "done" THEN Len(sse_events) - 1 ELSE Len(sse_events))

\* C13: every run emits exactly one start event first (progress 0.0), then
\* one content_chunk event per produced chunk in production order, then
\* exactly one terminal event: complete with progress 1.0 if the content
\* generator was exhausted, error with metadata.error if it raised; nothing
\* follows the terminal event.
C13_StartChunksTerminal ==
    /\ sse_pc # "idle" =>
          /\ sse_events # <<>>
          /\ sse_events[1].event = "start"
          /\ sse_events[1].progress = 0
    /\ Len(MiddleEvents) = Len(sse_produced)
    /\ \A i \in 1..Len(MiddleEvents) :
          /\ MiddleEvents[i].event = "content_chunk"
          /\ sse_produced[i] > 0 => MiddleEvents[i].content_chunk = sse_produced[i]
    /\ sse_pc = "done" =>
          /\ Len(sse_events) = Len(sse_produced) + 2
          /\ LET last == sse_events[Len(sse_events)]
             IN /\ sse_outcome = "exhausted" =>
                      last.event = "complete" /\ last.progress = PROGRESS_FULL
                /\ sse_outcome = "raised" =>
                      last.event = "error" /\ last.metadata_error
                /\ sse_outcome \in {"exhausted", "raised"}
    /\ sse_pc # "done" =>
          \A i \in 1..Len(sse_events) : sse_events[i].event \notin TerminalEvents

\* A run that raised after producing chunks, an empty chunk among them.
C13_Witness ==
    /\ sse_pc = "done"
    /\ sse_outcome = "raised"
    /\ Len(sse_produced) >= 2
    /\ \E i \in 1..Len(sse_produced) : sse_produced[i] = 0

\* ---------------------------------------------------------------------
\* VersionManager
\* ---------------------------------------------------------------------
\* The nodes reached from id by following parent_version_id, id included.
RECURSIVE AncestorsN(_, _, _)
AncestorsN(docs, S, n) ==
    IF n = 0 THEN S
    ELSE AncestorsN(docs,
                    S \cup ({docs[d].parent_version_id : d \in S} \cap DOMAIN docs),
                    n - 1)

Ancestors(docs, id) == AncestorsN(docs, {id}, Cardinality(DOMAIN docs))

\* The root of id's chain: its ancestor that has no stored parent.
Root(docs, id) ==
    CHOOSE r \in Ancestors(docs, id) : docs[r].parent_version_id \notin DOMAIN docs

\* The chain id belongs to: every stored node with the same root.
Chain(docs, id) == {d \in DOMAIN docs : Root(docs, d) = Root(docs, id)}

LatestOf(docs, chain) == {d \in chain : docs[d].is_latest}

VersionsOf(docs, chain) == {docs[d].version : d \in chain}

\* Nothing but create_new_version calls (and unit creation) has written to
\* the store: no node was deleted, none was made by revert_to_version.
OnlyCreates ==
    /\ DOMAIN documents = 1..doc_count
    /\ \A d \in DOMAIN documents : documents[d].reverted_from_version = None

\* A chain as successive versioning of its latest node builds it.
Linear(docs, chain) ==
    /\ Cardinality(LatestOf(docs, chain)) = 1
    /\ Cardinality(VersionsOf(docs, chain)) = Cardinality(chain)

IsSeqOf(s, S) ==
    /\ Range(s) = S
    /\ Len(s) = Cardinality(S)

\* C14: after any sequence of create_new_version calls on members of one
\* chain, exactly one node of the chain has is_latest = true.
C14_ExactlyOneLatest ==
    OnlyCreates =>
        \A d \in DOMAIN documents :
            Cardinality(LatestOf(documents, Chain(documents, d))) = 1

\* C15: after any sequence of create_new_version calls, the version numbers
\* of a chain are pairwise distinct and form 1, 2, ..., k, and each node's
\* version is its parent's version plus 1.
C15_ContiguousVersions ==
    OnlyCreates =>
        \A d \in DOMAIN documents :
            LET chain == Chain(documents, d)
            IN /\ VersionsOf(documents, chain) = 1..Cardinality(chain)
               /\ documents[d].parent_version_id # None =>
                     documents[d].version =
                         documents[documents[d].parent_version_id].version + 1

\* C16: create_new_version(from_version_id) builds the new node from the
\* current latest node of from_version_id's chain, also when
\* from_version_id is an older member: the latest loses is_latest, the new
\* node has version latest.version + 1 and parent_version_id latest.id.
C16_BuildsFromLatest ==
    [][\A id \in DocIds :
          (CreateNewVersion(id) /\ id \in DOMAIN documents /\ OnlyCreates) =>
              \A latest \in LatestOf(documents, Chain(documents, id)) :
                  /\ ~documents'[latest].is_latest
                  /\ documents'[doc_count'].version = documents[latest].version + 1
                  /\ documents'[doc_count'].parent_version_id = latest]_vars

C18_StackIsWholeChain ==
    (/\ last_op.op = "get_version_stack"
     /\ last_op.error = "none"
     /\ OnlyCreates
     /\ Linear(documents, Chain(documents, last_op.document_id))) =>
        IsSeqOf(last_op.stack, Chain(documents, last_op.document_id))

\* C19: collapse on a chain whose stack has height H returns exactly H-1
\* deleted ids, deletes those nodes with their visual nodes, and leaves
\* exactly one node of the chain: the one that was latest before the call.
C19_CollapseLeavesLatest ==
    [][\A id \in DocIds :
          (CollapseStack(id) /\ last_op'.error = "none") =>
              LET chain == Chain(documents, id)
                  deleted == Range(last_op'.deleted_ids)
              IN /\ Len(last_op'.deleted_ids) = Len(last_op'.stack) - 1
                 /\ deleted \cap DOMAIN documents' = {}
                 /\ {documents[d].graph_node_id : d \in deleted}
                        \cap DOMAIN graph_nodes' = {}
                 /\ \E latest \in LatestOf(documents, chain) :
                       chain \cap DOMAIN documents' = {latest}]_vars

\* C20: revert(chain, v) creates one new node that becomes the chain's only
\* latest node, whose parent is the chain's previous latest, whose version
\* is the previous latest's plus 1, whose content is the content of version
\* v, and whose metadata has reverted_from_version = v.
C20_RevertAppendsToLatest ==
    [][\A id \in DocIds, v \in 1..MaxDocs :
          (/\ RevertToVersion(id, v)
           /\ last_op'.error = "none"
           /\ Linear(documents, Chain(documents, id))) =>
              LET chain == Chain(documents, id)
                  new == doc_count'
              IN /\ DOMAIN documents' = DOMAIN documents \cup {new}
                 /\ new \notin DOMAIN documents
                 /\ LatestOf(documents', chain \cup {new}) = {new}
                 /\ \A latest \in LatestOf(documents, chain) :
                       /\ documents'[new].parent_version_id = latest
                       /\ documents'[new].version = documents[latest].version + 1
                 /\ \A t \in chain :
                       documents[t].version = v =>
                           documents'[new].content = documents[t].content
                 /\ documents'[new].reverted_from_version = v]_vars

\* create_new_version cannot resolve document_id: no such document, or the
\* document's graph node is not stored.
Unresolvable(id) ==
    \/ id \notin DOMAIN documents
    \/ documents[id].graph_node_id \notin DOMAIN graph_nodes

\* C25: create_new_version fails with NotFound when document_id names no
\* existing document or its visual node cannot be resolved, and then it
\* creates no node and no edge and changes no node's is_latest flag.
C25_NotFoundChangesNothing ==
    [][\A id \in DocIds :
          (Unresolvable(id) /\ CreateNewVersion(id)) =>
              /\ last_op'.error = "ValueError"
              /\ UNCHANGED <<documents, graph_nodes, graph_edges>>]_vars

\* C26: every successful create_new_version call (revert_to_version makes
\* one) delivers one version-created event to the subscribers of the
\* owning project, the new node being persisted.
C26_VersionCreatedDelivered ==
    (last_op.op \in {"create_new_version", "revert_to_version"}
     /\ last_op.error = "none") =>
        /\ last_op.result \in DOMAIN documents
        /\ last_op.delivered = <<"version_created">>

\* The visual node of document d.
VisualNode(d) == graph_nodes[documents[d].graph_node_id]

HasVisualNode(d) == documents[d].graph_node_id \in DOMAIN graph_nodes

\* C27: the visual node of every version created from a parent is at
\* z = parent.z + 1, y = parent.y - STACK_Y_OFFSET, x = parent.x; so, in a
\* store nothing was deleted from, a node k versions above its root is at
\* (root.x, root.y - 20k, root.z + k).
C27_StackedPosition ==
    /\ \A d \in DOMAIN documents :
          LET p == documents[d].parent_version_id
          IN (p # None /\ p \in DOMAIN documents
              /\ HasVisualNode(d) /\ HasVisualNode(p)) =>
                 /\ VisualNode(d).position_z = VisualNode(p).position_z + 1
                 /\ VisualNode(d).position_y = VisualNode(p).position_y - STACK_Y_OFFSET
                 /\ VisualNode(d).position_x = VisualNode(p).position_x
    /\ (DOMAIN documents = 1..doc_count /\ DOMAIN graph_nodes = 1..doc_count) =>
          \A d \in DOMAIN documents :
             LET root == Root(documents, d)
                 k == documents[d].version - documents[root].version
             IN /\ VisualNode(d).position_x = VisualNode(root).position_x
                /\ VisualNode(d).position_y = VisualNode(root).position_y - 20 * k
                /\ VisualNode(d).position_z = VisualNode(root).position_z + k

\* ---------------------------------------------------------------------
\* VersionDiffService
\* ---------------------------------------------------------------------
\* C21: comparing a version with itself, or two versions with identical
\* content, yields similarity 1.0, zero added lines, zero removed lines
\* and an empty list of diff lines.
C21_IdenticalContentNoDiff ==
    (comparison.done /\ content_a = content_b) =>
        /\ comparison.similarity.num = comparison.similarity.den
        /\ comparison.diff.added_lines = 0
        /\ comparison.diff.removed_lines = 0
        /\ comparison.diff.diff_lines = <<>>

\* Two equal contents of more than one line have been compared.
C21_Witness ==
    /\ comparison.done
    /\ content_a = content_b
    /\ Len(content_a) = MaxContentLen
    /\ \E t \in DOMAIN content_a : content_a[t] = NEWLINE

\* ---------------------------------------------------------------------
\* C31: the cross-reference pass runs only once every wave has returned;
\* when the call has returned, each unordered pair of produced units has
\* a references edge between their visual nodes exactly when one unit's
\* content contains, ignoring case, the other's doc_type name; a pair
\* where neither does has none, and no edge links a unit to itself.
\* ---------------------------------------------------------------------
ContainsIgnoringCase(content, name) ==
    \E i \in 1..Len(content) :
        /\ i + Len(name) - 1 <= Len(content)
        /\ \A k \in 1..Len(name) :
               LowerChar(content[i + k - 1]) = LowerChar(name[k])

EdgesBetween(u, v) ==
    {e \in xref.edges :
        /\ e.edge_type = "references"
        /\ {e.source_id, e.target_id} = {XrefGraphNode(u), XrefGraphNode(v)}}

C31_CrossReferences ==
    /\ xref.pc \in {"pass", "returned"} => xref.todo = {}
    /\ xref.pc # "returned" => xref.edges = {}
    /\ xref.pc = "returned" =>
        /\ \A u, v \in SeqRange(xref.doc_ids) :
              u # v =>
                 Cardinality(EdgesBetween(u, v)) =
                     IF \/ ContainsIgnoringCase(xref.content[u], DocTypeName(v))
                        \/ ContainsIgnoringCase(xref.content[v], DocTypeName(u))
                     THEN 1 ELSE 0
        /\ \A e \in xref.edges :
              /\ e.source_id # e.target_id
              /\ \E u, v \in SeqRange(xref.doc_ids) : e \in EdgesBetween(u, v)

\* Two units were produced, one names the other in lower case only, and
\* the pass linked them.
C31_Witness ==
    /\ xref.pc = "returned"
    /\ \E u, v \in SeqRange(xref.doc_ids) :
          /\ u # v
          /\ xref.content[u] = LowerStr(DocTypeName(v))
          /\ ~ Contains(xref.content[v], DocTypeName(u))
          /\ EdgesBetween(u, v) # {}

\* ---------------------------------------------------------------------
\* C32: subscribers of the unit's document scope disconnecting at any
\* moment, also while the task is suspended in a broadcast to that
\* scope, leave the task running: no exception leaves it.
\* ---------------------------------------------------------------------
C32_DisconnectLeavesTaskRunning == stream_task.pc # "raised"

\* ---------------------------------------------------------------------
\* C33: every project or document bucket present in the registry holds
\* at least one subscriber, whatever connects, disconnects and broadcasts
\* (with failing sends) have run.
\* ---------------------------------------------------------------------
C33_NoEmptyBucket ==
    /\ \A k \in DOMAIN project_connections : project_connections[k] # {}
    /\ \A k \in DOMAIN document_connections : document_connections[k] # {}

\* ---------------------------------------------------------------------
\* C34: the added_lines and removed_lines a comparison returns are the
\* numbers of added and of removed lines among the diff_lines it returns.
\* ---------------------------------------------------------------------
LinesWithPrefix(lines, prefix) ==
    Cardinality({t \in DOMAIN lines : lines[t].prefix = prefix})

C34_CountsMatchDiffLines ==
    comparison.done =>
        /\ comparison.diff.added_lines =
               LinesWithPrefix(comparison.diff.diff_lines, "+")
        /\ comparison.diff.removed_lines =
               LinesWithPrefix(comparison.diff.diff_lines, "-")

\* ---------------------------------------------------------------------
\* C35: a wave emitted by the fallback holds all the templates that were
\* remaining and is the last wave of the plan; in a returned plan that
\* took the fallback the last wave holds exactly the templates that
\* depend, directly or through other templates, on a doc_type outside
\* the list or on a doc_type of a dependency cycle, and every other
\* template is in an earlier wave, with all its dependencies placed by
\* the waves before that one.
\* ---------------------------------------------------------------------
\* doc_types on a dependency cycle of the list T
OnCycle(T) == {d \in ListTypes(T) : d \in ReachN(T, {d}, Len(T))}

\* Templates that can never have all their dependencies placed.
BlockedTypes(T) ==
    LET cyclic == OnCycle(T)
        listed == ListTypes(T)
    IN {dt \in listed :
           \E d \in ReachN(T, {dt}, Len(T)) : d \notin listed \/ d \in cyclic}

BlockedTemplates(T) ==
    LET blocked == BlockedTypes(T)
    IN SelectSeq(T, LAMBDA t : t.doc_type \in blocked)

DepsPlacedBefore(t, i) == t.dependencies \subseteq TypesBefore(i)

\* Wave i holds a template some dependency of which no earlier wave placed.
UnmetWave(i) == \E p \in 1..Len(waves[i]) : ~DepsPlacedBefore(waves[i][p], i)

C35_FallbackWaveLast ==
    /\ \A i \in 1..Len(waves) :
          UnmetWave(i) => (i = Len(waves) /\ remaining = <<>>)
    /\ plan_pc = "done" =>
          LET blocked == BlockedTemplates(templates)
          IN IF blocked = <<>>
             THEN \A i \in 1..Len(waves) : ~UnmetWave(i)
             ELSE /\ waves # <<>>
                  /\ waves[Len(waves)] = blocked
                  /\ \A k \in 1..Len(templates) :
                        templates[k] \notin Range(blocked) =>
                            \E i \in 1..(Len(waves) - 1) :
                                /\ templates[k] \in Range(waves[i])
                                /\ DepsPlacedBefore(templates[k], i)

\* A returned plan of a normal wave followed by a fallback wave of two
\* templates, one of them held back only through the other.
C35_Witness ==
    /\ plan_pc = "done"
    /\ Len(waves) = 2
    /\ UnmetWave(2)
    /\ Len(waves[2]) = 2
    /\ \E p \in 1..2 :
          /\ waves[2][p].dependencies \subseteq ListTypes(templates)
          /\ waves[2][p].doc_type \notin waves[2][p].dependencies

\* ---------------------------------------------------------------------
\* C36: for a template list without cycles whose dependencies all name
\* doc_types of the list, wave k (counted from 0) of the returned plan
\* holds, in input order, exactly the templates whose longest dependency
\* chain has k steps; the plan is thereby a function of the input list,
\* and the input list is never modified.
\* ---------------------------------------------------------------------
SetMax(S) == CHOOSE x \in S : \A y \in S : y <= x

\* The number of steps of the longest dependency chain from doc_type dt,
\* followed for at most n steps.
RECURSIVE ChainLen(_, _, _)
ChainLen(T, dt, n) ==
    IF n = 0 \/ DepsOf(T, dt) = {} THEN 0
    ELSE 1 + SetMax({ChainLen(T, d, n - 1) : d \in DepsOf(T, dt)})

Layer(T, k) == SelectSeq(T, LAMBDA t : ChainLen(T, t.doc_type, Len(T)) = k)

LayersOf(T) ==
    IF T = <<>> THEN 0
    ELSE 1 + SetMax({ChainLen(T, T[i].doc_type, Len(T)) : i \in 1..Len(T)})

EarliestLayering(T) == [k \in 1..LayersOf(T) |-> Layer(T, k - 1)]

C36_Layered ==
    (plan_pc = "done" /\ Acyclic(templates) /\ Closed(templates)) =>
        waves = EarliestLayering(templates)

C36_InputKept == [][templates' = templates]_vars

C36_EarliestLayering == []C36_Layered /\ C36_InputKept

\* A returned plan for three templates, two of which depend on the first.
C36_Witness ==
    /\ plan_pc = "done"
    /\ Acyclic(templates) /\ Closed(templates)
    /\ Len(templates) = 3
    /\ Len(waves) = 2
    /\ Len(waves[2]) = 2

\* The chain A <- B <- C has been planned as [[A], [B], [C]].
C36_WitnessChain ==
    /\ plan_pc = "done"
    /\ templates = <<Template(1, {}), Template(2, {1}), Template(3, {2})>>
    /\ waves = <<<<templates[1]>>, <<templates[2]>>, <<templates[3]>>>>

\* ---------------------------------------------------------------------
\* C37: a broadcast to one scope sends only to subscribers registered in
\* that scope's bucket, to each at most once, and leaves every other
\* bucket as it was; a broadcast to a key without subscribers sends
\* nothing, does not raise and leaves the whole registry as it was.
\* ---------------------------------------------------------------------
\* The broadcast's next send goes to a registered subscriber.
SendsToRegistered == bc'.pc = "send" => bc'.current \in Bucket(bc'.scope)

\* The broadcast's next send goes to a subscriber it has not sent to.
SendsOnce == bc'.pc = "send" => bc'.current \notin bc.visited

OtherBucketsKept ==
    \A sc \in Scopes \ {bc'.scope} :
        /\ HasBucket(sc)' = HasBucket(sc)
        /\ Bucket(sc)' = Bucket(sc)

C37_BroadcastFrame ==
    [][/\ \A sc \in Scopes :
             BroadcastStart(sc) =>
                /\ SendsToRegistered
                /\ Registry' = Registry
                /\ Bucket(sc) = {} => (bc'.pc = "returned" /\ bc'.visited = {})
       /\ \A ok \in BOOLEAN :
             BroadcastResume(ok) =>
                /\ SendsToRegistered
                /\ SendsOnce
                /\ OtherBucketsKept]_vars

\* ---------------------------------------------------------------------
\* C38: when a task of wave i has raised and the call has failed, no unit
\* of a later wave has been or is ever created, the call stays failed
\* (the relationships are not created, no ids are returned), and the
\* failure leaves the wave's other tasks as they were, free to go on.
\* ---------------------------------------------------------------------
LaterWaveTypes == UNION {WaveTypes(dep_graph[j]) : j \in (wave_idx + 1)..Len(dep_graph)}

C38_LaterWavesNotCreated ==
    gen_pc = "failed" =>
        /\ \E t \in WaveTypes(dep_graph[wave_idx]) : task_pc[t] = "raised"
        /\ \A t \in LaterWaveTypes :
              /\ task_pc[t] = "absent"
              /\ doc_node[t] = NoDoc
              /\ events[t] = <<>>

C38_FailureFinal ==
    [][/\ gen_pc = "failed" => (gen_pc' = "failed" /\ wave_idx' = wave_idx)
       /\ (gen_pc = "gather" /\ gen_pc' = "failed") => task_pc' = task_pc]_vars

C38_FailurePropagates == []C38_LaterWavesNotCreated /\ C38_FailureFinal

\* The call has failed in a wave that is not the last, while a sibling of
\* the raising task is suspended in the broadcast of a chunk.
C38_Witness ==
    /\ gen_pc = "failed"
    /\ wave_idx < Len(dep_graph)
    /\ \E t \in WaveTypes(dep_graph[wave_idx]) : task_pc[t] = "chunk_bcast"

\* The call has failed and a sibling of the raising task has since returned.
C38_WitnessSiblingDone ==
    /\ gen_pc = "failed"
    /\ \E t \in WaveTypes(dep_graph[wave_idx]) : task_pc[t] = "done"

\* ---------------------------------------------------------------------
\* C39: a successful create_new_version or revert_to_version adds exactly
\* one document node and one graph node and changes no existing row,
\* except that the document node it supersedes loses is_latest.
\* ---------------------------------------------------------------------
AppendsOneVersion ==
    LET new_id == last_op'.result
        superseded == documents'[new_id].parent_version_id
    IN /\ new_id \notin DOMAIN documents
       /\ DOMAIN documents' = DOMAIN documents \cup {new_id}
       /\ Cardinality(DOMAIN graph_nodes' \ DOMAIN graph_nodes) = 1
       /\ DOMAIN graph_nodes \subseteq DOMAIN graph_nodes'
       /\ \A g \in DOMAIN graph_nodes : graph_nodes'[g] = graph_nodes[g]
       /\ \A d \in DOMAIN documents :
             /\ documents'[d].content = documents[d].content
             /\ documents'[d].version = documents[d].version
             /\ documents'[d].parent_version_id = documents[d].parent_version_id
             /\ documents'[d] # documents[d] =>
                   /\ d = superseded
                   /\ documents'[d] = [documents[d] EXCEPT !.is_latest = FALSE]

\* The step is a create_new_version or revert_to_version that returned
\* the node it created.
VersionCallSucceeds ==
    /\ last_op'.op \in {"create_new_version", "revert_to_version"}
    /\ last_op'.error = "none"
    /\ doc_count' = doc_count + 1
    /\ last_op'.result = doc_count'

C39_AppendOnly == [][VersionCallSucceeds => AppendsOneVersion]_vars

\* A revert has just stored an old content again, in a new node on top of
\* a chain of at least two, and the node it superseded is no longer latest.
C39_Witness ==
    /\ last_op.op = "revert_to_version"
    /\ last_op.error = "none"
    /\ last_op.result \in DOMAIN documents
    /\ LET new_doc == documents[last_op.result]
       IN /\ new_doc.version >= 3
          /\ new_doc.parent_version_id \in DOMAIN documents
          /\ ~documents[new_doc.parent_version_id].is_latest
          /\ new_doc.content # documents[new_doc.parent_version_id].content

====
